---- MODULE Spec2Model ----
(***************************************************************************)
(* A model of the argument-resolution engine (parser.py, argument.py):     *)
(* named parser nodes, each with an argument index and a view index (two   *)
(* sorted string tries), the buffer of unparsed tokens, the process-wide   *)
(* unsafe flag and the token counters.  Every public operation is one      *)
(* action; what it returned or raised is recorded in ret.  The command    *)
(* tree of argparser.py and the stage schedule of tracker.py have their    *)
(* own variables and specifications.                                       *)
(***************************************************************************)
EXTENDS Integers, Sequences, FiniteSets, TLC

VARIABLES
    nodes,         \* _NODES: command name -> _ParserNode
    default_node,  \* _DEFAULT_NODE
    unsafe,        \* _ParserNode._unsafe (class attribute, shared by all nodes)
    cli_idx,       \* UnparsedArgument._IDX
    cfg_idx,       \* UnparsedConfigArgument._IDX
    argv,          \* sys.argv[1:]
    pc,            \* "idle", or "log_dir" while parse_args is inside get_log_dir
    fs,            \* the log directories that exist on disk
    clock,         \* datetime.now(), as a tick count
    ret,           \* the last call: its name, its inputs, what it returned or raised
    commands,      \* argparser.py: ArgParser.name2command, name -> _CommandNode
    tracker        \* tracker.py: the _Schedule of a Tracker and its _Path

vars == <<nodes, default_node, unsafe, cli_idx, cfg_idx, argv, pc, fs, clock, ret,
          commands, tracker>>

----------------------------------------------------------------------------
(* Strings.  Python's str.startswith, slicing and the code-point order     *)
(* that SortedStringTrie keeps its keys in.                                *)

StartsWith(s, p) == Len(p) <= Len(s) /\ SubSeq(s, 1, Len(p)) = p

Drop(s, n) == SubSeq(s, n + 1, Len(s))

\* The characters the model's names use, in code-point order.
Ascii == "-0123456789TU_abcdefghijklmnopqrstuvwxyz"

CharRank(c) == CHOOSE i \in 1..Len(Ascii) : SubSeq(Ascii, i, i) = c

RECURSIVE StrLess(_, _)
StrLess(a, b) ==
    IF a = "" THEN b # ""
    ELSE IF b = "" THEN FALSE
    ELSE IF SubSeq(a, 1, 1) = SubSeq(b, 1, 1) THEN StrLess(Drop(a, 1), Drop(b, 1))
    ELSE CharRank(SubSeq(a, 1, 1)) < CharRank(SubSeq(b, 1, 1))

MinStr(S) == CHOOSE m \in S : \A o \in S \ {m} : StrLess(m, o)

\* sorted(S) for a set of strings.
RECURSIVE SortedKeys(_)
SortedKeys(S) ==
    IF S = {} THEN <<>> ELSE <<MinStr(S)>> \o SortedKeys(S \ {MinStr(S)})

\* Mappings (dict, trie) as functions over their key set.
EmptyMap == [k \in {} |-> 0]

Put(f, k, v) == [y \in DOMAIN f \cup {k} |-> IF y = k THEN v ELSE f[y]]

Del(f, k) == [y \in DOMAIN f \ {k} |-> f[y]]

----------------------------------------------------------------------------
(* Python values: None, str, int, bool and tuples of them.                 *)

None == [k |-> "None"]
VStr(s) == [k |-> "str", s |-> s]
VInt(n) == [k |-> "int", n |-> n]
VBool(b) == [k |-> "bool", b |-> b]
VTuple(items) == [k |-> "tuple", items |-> items]

IsTuple(v) == v.k = "tuple"

Ok(v) == [err |-> "", val |-> v]
Raise(e) == [err |-> e, val |-> None]

DigitVal(c) ==
    IF \E d \in 0..9 : SubSeq("0123456789", d + 1, d + 1) = c
    THEN CHOOSE d \in 0..9 : SubSeq("0123456789", d + 1, d + 1) = c
    ELSE 0 - 1

\* int(s) for a string of decimal digits; -1 when s is not one.
RECURSIVE ParseDigits(_, _)
ParseDigits(s, acc) ==
    IF s = "" THEN acc
    ELSE IF DigitVal(SubSeq(s, 1, 1)) < 0 THEN 0 - 1
    ELSE ParseDigits(Drop(s, 1), 10 * acc + DigitVal(SubSeq(s, 1, 1)))

\* str(n) for n >= 0.
RECURSIVE IntToStr(_)
IntToStr(n) ==
    IF n < 10 THEN SubSeq("0123456789", n + 1, n + 1)
    ELSE IntToStr(n \div 10) \o SubSeq("0123456789", (n % 10) + 1, (n % 10) + 1)

\* dtype(v) for one element v: the constructors int, str, bool (and tuple,
\* which only type(default) can produce).
Construct(dtype, v) ==
    CASE dtype = "int" ->
            IF v.k = "int" THEN Ok(v)
            ELSE IF v.k = "bool" THEN Ok(VInt(IF v.b THEN 1 ELSE 0))
            ELSE IF v.k = "str"
                 THEN IF v.s # "" /\ ParseDigits(v.s, 0) >= 0
                      THEN Ok(VInt(ParseDigits(v.s, 0)))
                      ELSE Raise("ValueError")
            ELSE Raise("TypeError")
      [] dtype = "str" ->
            IF v.k = "str" THEN Ok(v)
            ELSE IF v.k = "int" THEN Ok(VStr(IntToStr(v.n)))
            ELSE IF v.k = "bool" THEN Ok(VStr(IF v.b THEN "True" ELSE "False"))
            ELSE Raise("TypeError")
      [] dtype = "bool" ->
            IF v.k = "bool" THEN Ok(v)
            ELSE IF v.k = "int" THEN Ok(VBool(v.n # 0))
            ELSE IF v.k = "str" THEN Ok(VBool(v.s # ""))
            ELSE IF v.k = "tuple" THEN Ok(VBool(v.items # <<>>))
            ELSE Ok(VBool(FALSE))
      [] dtype = "tuple" ->
            IF v.k = "tuple" THEN Ok(v)
            ELSE IF v.k = "str"
                 THEN Ok(VTuple([i \in 1..Len(v.s) |-> VStr(SubSeq(v.s, i, i))]))
            ELSE Raise("TypeError")
      [] OTHER -> Ok(v)

\* tuple(dtype(v) for v in items): the first constructor that raises decides.
ConsResult(h, t) ==
    IF h.err # "" THEN h
    ELSE IF t.err # "" THEN t
    ELSE Ok(VTuple(<<h.val>> \o t.val.items))

RECURSIVE ConstructAll(_, _)
ConstructAll(dtype, items) ==
    IF items = <<>> THEN Ok(VTuple(<<>>))
    ELSE ConsResult(Construct(dtype, Head(items)), ConstructAll(dtype, Tail(items)))

----------------------------------------------------------------------------
(* argument.py: name formats, sequence indices, Argument.                  *)

_check_format(name) ==
    IF StartsWith(name, "--") /\ ~StartsWith(name, "---") THEN "full"
    ELSE IF StartsWith(name, "-") /\ ~StartsWith(name, "--") THEN "short"
    ELSE IF ~StartsWith(name, "-") THEN "plain"
    ELSE "FormatError"

canonicalize(name) ==
    IF _check_format(name) = "FormatError" THEN Raise("FormatError")
    ELSE IF _check_format(name) = "plain" THEN Ok("--" \o name)
    ELSE Ok(name)

Index(source, idx) == [source |-> source, idx |-> idx]

\* Index.__lt__, generated by dataclass(order=True): the field tuples are
\* compared, and Source is a plain Enum, which has no order of its own.
IndexLt(a, b) ==
    IF a.source = b.source THEN Ok(a.idx < b.idx) ELSE Raise("TypeError")

\* nargs '+' and nargs=None.
PLUS == 0 - 1
NoNargs == 0
NoName == ""

\* A faulty variant of CheckShape: arity 1 takes a tuple too.
LooseShape(a, new_value) ==
    IF new_value = None THEN ""
    ELSE IF a.nargs = PLUS \/ a.nargs = 1 THEN ""
    ELSE IF a.nargs = 0
         THEN IF new_value.k # "bool" THEN "ValueError" ELSE ""
    ELSE IF ~IsTuple(new_value) \/ Len(new_value.items) # a.nargs
         THEN "FormatError" ELSE ""

\* Argument.value's setter: the nargs check of the new value,
CheckShape(a, new_value) ==
    IF new_value = None THEN ""
    ELSE IF a.nargs = PLUS THEN ""
    ELSE IF a.nargs = 1
         THEN IF IsTuple(new_value) THEN "FormatError" ELSE ""
    ELSE IF a.nargs = 0
         THEN IF new_value.k # "bool" THEN "ValueError" ELSE ""
    ELSE IF ~IsTuple(new_value) \/ Len(new_value.items) # a.nargs
         THEN "FormatError" ELSE ""

\* the conversion by dtype,
Coerced(dtype, v1) ==
    IF dtype # "None" /\ v1 # None
    THEN IF IsTuple(v1) THEN ConstructAll(dtype, v1.items) ELSE Construct(dtype, v1)
    ELSE Ok(v1)

\* and the assignment to _value.
Assigned(a, v2) ==
    IF v2.err # "" THEN [err |-> v2.err, arg |-> a]
    ELSE [err |-> "", arg |-> [a EXCEPT !.value = v2.val]]

SetValue(a, new_value) ==
    IF CheckShape(a, new_value) # "" THEN [err |-> CheckShape(a, new_value), arg |-> a]
    ELSE Assigned(a, Coerced(a.dtype,
                             IF new_value # None /\ a.nargs = PLUS /\ ~IsTuple(new_value)
                             THEN VTuple(<<new_value>>) ELSE new_value))

\* A faulty variant of CheckNames: only the full name's dashes are checked.
CheckFullNameOnly(full_name, short_name, dtype) ==
    IF _check_format(full_name) # "full" THEN "FormatError" ELSE ""

\* Argument.__init__: the checks of the names,
CheckNames(full_name, short_name, dtype) ==
    IF _check_format(full_name) # "full" THEN "FormatError"
    ELSE IF short_name # NoName /\ _check_format(short_name) # "short" THEN "FormatError"
    ELSE IF dtype = "bool" /\ StartsWith(full_name, "--no_") THEN "FormatError"
    ELSE IF dtype = "bool" /\ short_name # NoName /\ StartsWith(short_name, "-no_")
         THEN "FormatError"
    ELSE ""

\* the object before its value is set,
BlankArgument(full_name, short_name, default, dtype, nargs, is_unsafe) ==
    [full_name |-> full_name, short_name |-> short_name,
     default |-> default, dtype |-> dtype,
     nargs |-> IF dtype = "bool" THEN 0 ELSE IF nargs = NoNargs THEN 1 ELSE nargs,
     unsafe |-> is_unsafe, name |-> Drop(full_name, 2),
     value |-> None, last_idx |-> None, views |-> <<>>]

\* and the type taken from the default when none was declared.
InferDtype(set, default, dtype) ==
    IF set.err # "" THEN set
    ELSE IF default # None /\ dtype = "None"
         THEN [err |-> "", arg |-> [set.arg EXCEPT !.dtype = default.k]]
    ELSE set

NewArgument(full_name, short_name, default, dtype, nargs, is_unsafe) ==
    IF CheckNames(full_name, short_name, dtype) # ""
    THEN [err |-> CheckNames(full_name, short_name, dtype),
          arg |-> BlankArgument(full_name, short_name, default, dtype, nargs, is_unsafe)]
    ELSE InferDtype(SetValue(BlankArgument(full_name, short_name, default, dtype,
                                           nargs, is_unsafe), default),
                    default, dtype)

----------------------------------------------------------------------------
(* parser.py: _ParserNode.  An Argument object is known by its full name   *)
(* (objs); the two tries hold references to it.  A context c carries the   *)
(* node being worked on together with the process-wide state the methods   *)
(* read and write: [node, unsafe, cli_idx, cfg_idx].                       *)

ArgRef(key) == [is_view |-> FALSE, arg |-> key]
ViewRef(key, name, value) == [is_view |-> TRUE, arg |-> key, name |-> name, value |-> value]

\* Argument.__eq__ and _ArgumentView.__eq__: identity of the backing argument.
SameArg(a, b) == a.arg = b.arg

Fail(c, e) == [err |-> e, c |-> c, val |-> None]
Done(c, v) == [err |-> "", c |-> c, val |-> v]

\* handle_error with _TEST = False, its value unless test_mode() is called.
handle_error(c, e) == Fail(c, e)

_kwds == {"--unsafe", "-u", "--help", "-h", "--config", "-cfg", "--log_dir", "-ld", "--msg", "-m"}

_check_keywords(name) == IF name \in _kwds THEN "KeywordError" ELSE ""

\* Faulty variants of _get_argument_from_trie: one takes some match when
\* there are several, one returns None for no match in either mode.
AnyMatchFromTrie(name, trie, is_unsafe) ==
    IF name \in DOMAIN trie THEN Ok(trie[name])
    ELSE IF \E k \in DOMAIN trie : StartsWith(k, name)
         THEN Ok(trie[CHOOSE k \in DOMAIN trie : StartsWith(k, name)])
    ELSE IF is_unsafe THEN Ok(None) ELSE Raise("NameError")

LenientFromTrie(name, trie, is_unsafe) ==
    IF name \in DOMAIN trie THEN Ok(trie[name])
    ELSE IF Cardinality({k \in DOMAIN trie : StartsWith(k, name)}) > 1
         THEN Raise("MultipleMatchError")
    ELSE IF \E k \in DOMAIN trie : StartsWith(k, name)
         THEN Ok(trie[CHOOSE k \in DOMAIN trie : StartsWith(k, name)])
    ELSE Ok(None)

\* trie.values(prefix=name), as the set of its keys.
PrefixKeys(trie, name) == {k \in DOMAIN trie : StartsWith(k, name)}

\* A faulty variant of _get_argument_from_trie: a name that matches
\* nothing is not found, in unsafe mode too.
StrictLookup(name, trie, is_unsafe) ==
    IF name \in DOMAIN trie THEN Ok(trie[name])
    ELSE IF Cardinality(PrefixKeys(trie, name)) > 1 THEN Raise("MultipleMatchError")
    ELSE IF PrefixKeys(trie, name) = {} THEN Raise("NameError")
    ELSE Ok(trie[CHOOSE k \in PrefixKeys(trie, name) : TRUE])

_get_argument_from_trie(name, trie, is_unsafe) ==
    IF name \in DOMAIN trie THEN Ok(trie[name])
    ELSE IF Cardinality(PrefixKeys(trie, name)) > 1 THEN Raise("MultipleMatchError")
    ELSE IF PrefixKeys(trie, name) = {}
         THEN IF is_unsafe THEN Ok(None) ELSE Raise("NameError")
    ELSE Ok(trie[CHOOSE k \in PrefixKeys(trie, name) : TRUE])

\* A faulty variant of MatchBoth: a view that was found is returned without
\* a look at the arguments.
ViewWins(view_ok, v, n) ==
    IF view_ok /\ v.err \notin {"", "NameError"} THEN v
    ELSE IF ~view_ok \/ v.err # "" \/ v.val = None THEN n
    ELSE Ok(v.val)

\* get_argument once both tries were searched: v in the views, n in the
\* arguments.
MatchBoth(view_ok, v, n) ==
    IF view_ok /\ v.err \notin {"", "NameError"} THEN v
    ELSE IF ~view_ok \/ v.err # "" \/ v.val = None THEN n
    ELSE IF n.err \notin {"", "NameError"} THEN n
    ELSE IF n.err = "" /\ n.val # None /\ ~SameArg(n.val, v.val)
         THEN Raise("MultipleMatchError")
    ELSE Ok(v.val)

get_argument(c, name0, view_ok) ==
    IF canonicalize(name0).err # "" THEN canonicalize(name0)
    ELSE MatchBoth(view_ok,
                   _get_argument_from_trie(canonicalize(name0).val, c.node.arg_views, c.unsafe),
                   _get_argument_from_trie(canonicalize(name0).val, c.node.args, c.unsafe))

\* a.value = value, through an argument or through one of its views.
Stored(c, ref, set) ==
    IF set.err # "" THEN Fail(c, set.err)
    ELSE Done([c EXCEPT !.node.objs[ref.arg] = set.arg], None)

AssignValue(c, ref, value) == Stored(c, ref, SetValue(c.node.objs[ref.arg], value))

\* set_argument once get_argument returned a.
SetFound(c, a, value) ==
    IF a.err # "" THEN Fail(c, a.err)
    ELSE IF a.val = None THEN Fail(c, "AttributeError")
    ELSE AssignValue(c, a.val, value)

set_argument(c, name, value) == SetFound(c, get_argument(c, name, TRUE), value)

\* A faulty variant of Newer: every token is applied, whatever its index.
AlwaysNewer(last_idx, idx) == Ok(TRUE)

\* self.last_idx is None or self.last_idx < un_arg.idx
Newer(last_idx, idx) == IF last_idx = None THEN Ok(TRUE) ELSE IndexLt(last_idx, idx)

\* self.last_idx = un_arg.idx, once the value was set.
MarkIdx(set, ref, un_arg) ==
    IF set.err # "" THEN set
    ELSE Done([set.c EXCEPT !.node.objs[ref.arg].last_idx = un_arg.idx], None)

\* Argument.update, on the argument or view that get_argument returned.
update(c, ref, un_arg) ==
    IF Newer(c.node.objs[ref.arg].last_idx, un_arg.idx).err # ""
    THEN Fail(c, Newer(c.node.objs[ref.arg].last_idx, un_arg.idx).err)
    ELSE IF ~Newer(c.node.objs[ref.arg].last_idx, un_arg.idx).val THEN Done(c, None)
    ELSE MarkIdx(AssignValue(c, ref, IF ref.is_view THEN VBool(ref.value) ELSE un_arg.value),
                 ref, un_arg)

\* A faulty variant of DeleteToken: the token stays in the buffer.
KeepToken(u, un_arg) == IF u.err # "" THEN u ELSE Done(u.c, None)

\* del self._cli_unparsed[un_arg.name], once update returned u.
DeleteToken(u, un_arg) ==
    IF u.err # "" THEN u
    ELSE IF un_arg.name \notin DOMAIN u.c.node.cli_unparsed THEN Fail(u.c, "KeyError")
    ELSE Done([u.c EXCEPT !.node.cli_unparsed = Del(@, un_arg.name)], None)

_update_arg(c, ref, un_arg) == DeleteToken(update(c, ref, un_arg), un_arg)

_check_nargs(arg, value) ==
    IF arg.nargs = 0 THEN value = None
    ELSE IF arg.nargs = 1 THEN value # None /\ ~IsTuple(value)
    ELSE IF arg.nargs = PLUS THEN (IsTuple(value) /\ Len(value.items) > 0) \/ ~IsTuple(value)
    ELSE IsTuple(value) /\ Len(value.items) = arg.nargs

\* return v, unless the call before it raised.
Return(r, v) == IF r.err # "" THEN r ELSE Done(r.c, v)

\* _parse_one_cli_arg once get_argument returned a.
CliFound(c, a, un_arg) ==
    IF a.err # "" THEN Fail(c, a.err)
    ELSE IF a.val = None THEN Done(c, None)
    ELSE IF ~_check_nargs(c.node.objs[a.val.arg], un_arg.value) THEN Fail(c, "NArgsError")
    ELSE Return(_update_arg(c, a.val, un_arg), a.val)

_parse_one_cli_arg(c, un_arg) == CliFound(c, get_argument(c, un_arg.name, TRUE), un_arg)

\* list(trie.iter_prefix_items(p)): the entries whose key is a prefix of p,
\* shortest key first.
RECURSIVE PrefixItemsFrom(_, _, _)
PrefixItemsFrom(trie, p, i) ==
    IF i > Len(p) THEN <<>>
    ELSE (IF SubSeq(p, 1, i) \in DOMAIN trie THEN <<trie[SubSeq(p, 1, i)]>> ELSE <<>>)
         \o PrefixItemsFrom(trie, p, i + 1)

iter_prefix_items(trie, p) == PrefixItemsFrom(trie, p, 0)

RECURSIVE ItemsOfPrefixes(_, _)
ItemsOfPrefixes(trie, prefixes) ==
    IF prefixes = <<>> THEN <<>>
    ELSE iter_prefix_items(trie, Head(prefixes)) \o ItemsOfPrefixes(trie, Tail(prefixes))

\* The loop of _parse_one_arg over the items found: the look-up of the
\* item's name (double_check), the update (u), the rest of the items.
RECURSIVE UpdateFromItems(_, _, _)

UpdateRest(u, arg, items) ==
    IF u.err # "" THEN u ELSE UpdateFromItems(u.c, arg, Tail(items))

UpdateChecked(c, arg, items, double_check) ==
    IF double_check.err # "" THEN Fail(c, double_check.err)
    ELSE IF double_check.val = None THEN Fail(c, "AttributeError")
    ELSE IF ~SameArg(double_check.val, arg) THEN Fail(c, "AssertionError")
    ELSE UpdateRest(_update_arg(c, double_check.val, Head(items)), arg, items)

UpdateFromItems(c, arg, items) ==
    IF items = <<>> THEN Done(c, arg)
    ELSE UpdateChecked(c, arg, items, get_argument(c, Head(items).name, TRUE))

\* The prefixes _parse_one_arg collects for the argument or view it found.
Prefixes(obj, ref) ==
    IF ref.is_view THEN [i \in 1..Len(obj.views) |-> obj.views[i].name]
    ELSE <<obj.full_name>> \o (IF obj.short_name # NoName THEN <<obj.short_name>> ELSE <<>>)

ParseItems(c, ref, items) ==
    IF items = <<>> THEN Done(c, None) ELSE UpdateFromItems(c, ref, items)

\* _parse_one_arg once get_argument returned arg.
ParseFound(c, arg) ==
    IF arg.err # "" THEN Fail(c, arg.err)
    ELSE IF arg.val = None THEN Done(c, None)
    ELSE ParseItems(c, arg.val,
                    ItemsOfPrefixes(c.node.cli_unparsed,
                                    Prefixes(c.node.objs[arg.val.arg], arg.val)))

_parse_one_arg(c, name) == ParseFound(c, get_argument(c, name, TRUE))

\* A faulty variant of AddViews: the two polarities are swapped.
SwappedViews(node, key, pos_name, neg_name) ==
    [node EXCEPT
        !.arg_views = Put(Put(@, pos_name, ViewRef(key, pos_name, FALSE)),
                          neg_name, ViewRef(key, neg_name, TRUE)),
        !.objs[key].views = @ \o <<ViewRef(key, pos_name, FALSE), ViewRef(key, neg_name, TRUE)>>]

\* The views a boolean argument gets for one of its spellings.
AddViews(node, key, pos_name, neg_name) ==
    [node EXCEPT
        !.arg_views = Put(Put(@, pos_name, ViewRef(key, pos_name, TRUE)),
                          neg_name, ViewRef(key, neg_name, FALSE)),
        !.objs[key].views = @ \o <<ViewRef(key, pos_name, TRUE), ViewRef(key, neg_name, FALSE)>>]

\* add_argument: the entries of self._args,
WithArg(node, d, arg) ==
    [node EXCEPT
        !.args = IF d.short_name # NoName
                 THEN Put(Put(@, d.full_name, ArgRef(d.full_name)),
                          d.short_name, ArgRef(d.full_name))
                 ELSE Put(@, d.full_name, ArgRef(d.full_name)),
        !.objs = Put(@, d.full_name, arg)]

\* the views of the full name and of the short name,
WithFullViews(node, d) ==
    IF d.dtype = "bool"
    THEN AddViews(node, d.full_name, d.full_name, "--no_" \o Drop(d.full_name, 2))
    ELSE node

WithShortViews(node, d) ==
    IF d.dtype = "bool" /\ d.short_name # NoName
    THEN AddViews(node, d.full_name, d.short_name, "-no_" \o Drop(d.short_name, 1))
    ELSE node

\* A faulty variant of Declared: the tokens kept are never looked at.
DeclaredOnly(c, d, is_unsafe) == Done(c, ArgRef(d.full_name))

\* and, when declared after parse_args in unsafe mode, the tokens kept.
Declared(c, d, is_unsafe) ==
    IF is_unsafe THEN Return(_parse_one_arg(c, d.full_name), ArgRef(d.full_name))
    ELSE Done(c, ArgRef(d.full_name))

\* A faulty variant of Register: the short name is not looked up.
RegisterFullOnly(c, d, new) ==
    IF new.err # "" THEN Fail(c, new.err)
    ELSE IF d.full_name \in DOMAIN c.node.args THEN handle_error(c, "DuplicateError")
    ELSE Declared([c EXCEPT !.node = WithShortViews(WithFullViews(WithArg(@, d, new.arg), d), d)],
                  d, c.node.parsed /\ c.unsafe)

\* add_argument from the construction of the Argument (new) on.
Register(c, d, new) ==
    IF new.err # "" THEN Fail(c, new.err)
    ELSE IF d.full_name \in DOMAIN c.node.args THEN handle_error(c, "DuplicateError")
    ELSE IF d.short_name # NoName /\ d.short_name \in DOMAIN c.node.args
         THEN handle_error(c, "DuplicateError")
    ELSE Declared([c EXCEPT !.node = WithShortViews(WithFullViews(WithArg(@, d, new.arg), d), d)],
                  d, c.node.parsed /\ c.unsafe)

\* A faulty variant of CheckBoth: only the full name is checked.
CheckFullOnly(d, force) == IF force THEN "" ELSE _check_keywords(d.full_name)

\* if not force: self._check_keywords(full_name); self._check_keywords(short_name)
CheckBoth(d, force) ==
    IF force THEN ""
    ELSE IF _check_keywords(d.full_name) # "" THEN _check_keywords(d.full_name)
    ELSE _check_keywords(d.short_name)

\* A faulty variant of add_argument: declarations are taken after parse_args
\* in safe mode too.
AddAfterParsed(c, d, force) ==
    IF CheckBoth(d, force) # "" THEN Fail(c, CheckBoth(d, force))
    ELSE Register(c, d, NewArgument(d.full_name, d.short_name, d.default, d.dtype, d.nargs,
                                    c.node.parsed /\ c.unsafe))

\* _ParserNode.add_argument; d is the declaration
\* [full_name, short_name, default, dtype, nargs].
add_argument(c, d, force) ==
    IF c.node.parsed /\ ~c.unsafe THEN handle_error(c, "ParsedError")
    ELSE IF CheckBoth(d, force) # "" THEN Fail(c, CheckBoth(d, force))
    ELSE Register(c, d, NewArgument(d.full_name, d.short_name, d.default, d.dtype, d.nargs,
                                    c.node.parsed /\ c.unsafe))

\* The tokenizing loop of parse_args: the position j where the inner loop
\* stops, the value collected from i + 1 to j - 1, the token stored.
NextName(av, i) ==
    IF \E k \in (i + 1)..Len(av) : StartsWith(av[k], "-")
    THEN CHOOSE k \in (i + 1)..Len(av) :
            /\ StartsWith(av[k], "-")
            /\ \A o \in (i + 1)..(k - 1) : ~StartsWith(av[o], "-")
    ELSE Len(av) + 1

\* A faulty variant of TokenValue: the first element only.
FirstElement(av, i, j) ==
    IF j = i + 1 THEN None ELSE VStr(av[i + 1])

TokenValue(av, i, j) ==
    IF j = i + 1 THEN None
    ELSE IF j = i + 2 THEN VStr(av[i + 1])
    ELSE VTuple([k \in 1..(j - i - 1) |-> VStr(av[i + k])])

UnparsedArgument(name, value, idx) == [name |-> name, value |-> value, idx |-> idx]

RECURSIVE Tokenize(_, _, _)
Tokenize(c, av, i) ==
    IF i > Len(av) THEN Done(c, None)
    ELSE IF _check_format(av[i]) = "FormatError" THEN Fail(c, "FormatError")
    ELSE IF _check_format(av[i]) = "plain" THEN Fail(c, "Exception")
    ELSE Tokenize([c EXCEPT
                      !.cli_idx = @ + 1,
                      !.node.cli_unparsed =
                          Put(@, av[i], UnparsedArgument(av[i],
                                                         TokenValue(av, i, NextName(av, i)),
                                                         Index("CLI", c.cli_idx)))],
                  av, NextName(av, i))

\* A faulty variant of CfgFound: a field that names no argument is dropped.
DropUnknownField(c, name, value, a) ==
    IF a.err # "" THEN Fail(c, a.err)
    ELSE IF a.val # None THEN AssignValue(c, a.val, value)
    ELSE Done(c, None)

\* _parse_cfg_arg once get_argument returned a.
CfgFound(c, name, value, a) ==
    IF a.err # "" THEN Fail(c, a.err)
    ELSE IF a.val # None THEN AssignValue(c, a.val, value)
    ELSE IF _check_format("--" \o name) = "FormatError" THEN Fail(c, "FormatError")
    ELSE Done([c EXCEPT
                  !.cfg_idx = @ + 1,
                  !.node.cli_unparsed =
                      Put(@, "--" \o name,
                          UnparsedArgument("--" \o name, value, Index("CONFIG", c.cfg_idx)))],
              None)

_parse_cfg_arg(c, name, value) == CfgFound(c, name, value, get_argument(c, name, TRUE))

\* A faulty variant of ParseCfgArgs: the profile's fields are not applied.
SkipCfgArgs(c, fields) == Done(c, None)

\* for name, v in default_args.items(): self._parse_cfg_arg(name, v)
RECURSIVE ParseCfgArgs(_, _)

ParseCfgRest(r, fields) == IF r.err # "" THEN r ELSE ParseCfgArgs(r.c, Tail(fields))

ParseCfgArgs(c, fields) ==
    IF fields = <<>> THEN Done(c, None)
    ELSE ParseCfgRest(_parse_cfg_arg(c, Head(fields).name, Head(fields).value), fields)

\* A faulty variant of ParseCliArgs: the tokens are left as they are.
SkipCliArgs(c, un_args) == Done(c, None)

\* for un_arg in self._cli_unparsed.values(): self._parse_one_cli_arg(un_arg)
RECURSIVE ParseCliArgs(_, _)

ParseCliRest(r, un_args) == IF r.err # "" THEN r ELSE ParseCliArgs(r.c, Tail(un_args))

ParseCliArgs(c, un_args) ==
    IF un_args = <<>> THEN Done(c, None)
    ELSE ParseCliRest(_parse_one_cli_arg(c, Head(un_args)), un_args)

\* trie.values(): the values in the order of their keys.
InOrder(trie, keys) == [i \in 1..Len(keys) |-> trie[keys[i]]]

TrieValues(trie) == InOrder(trie, SortedKeys(DOMAIN trie))

\* The step "Use args in the cfg file as defaults" of parse_args; its value
\* is the local variable config.  cfg_cls = self._registry[config], and
\* the fields of cfg_cls() go through _parse_cfg_arg.
LoadProfile(c, profiles, config) ==
    IF config.k # "str" \/ config.s \notin DOMAIN profiles THEN Fail(c, "KeyError")
    ELSE Return(ParseCfgArgs(c, profiles[config.s]), config)

\* A faulty variant of CfgArgFound: with no --config token nothing is
\* loaded, as on a node with no registry.
CfgSkipped(a_cfg, profiles) ==
    IF a_cfg.err # "" THEN a_cfg
    ELSE IF a_cfg.val = None THEN Done(a_cfg.c, VStr(""))
    ELSE LoadProfile(a_cfg.c, profiles, a_cfg.c.node.objs[a_cfg.val.arg].value)

CfgArgFound(a_cfg, profiles) ==
    IF a_cfg.err # "" THEN a_cfg
    ELSE IF a_cfg.val = None THEN Fail(a_cfg.c, "AttributeError")
    ELSE LoadProfile(a_cfg.c, profiles, a_cfg.c.node.objs[a_cfg.val.arg].value)

UseCfgDefaults(c) ==
    IF c.node.registry = None THEN Done(c, VStr(""))
    ELSE CfgArgFound(_parse_one_arg(c, "--config"), c.node.registry.profiles)

\* try_get_value, the closure of parse_args.
ValueFound(c, a) ==
    IF a.err = "NameError" THEN Ok(None)
    ELSE IF a.err # "" THEN a
    ELSE IF a.val = None THEN Ok(None)
    ELSE Ok(c.node.objs[a.val.arg].value)

try_get_value(c, name) == ValueFound(c, get_argument(c, name, TRUE))

Truthy(v) ==
    CASE v.k = "None" -> FALSE
      [] v.k = "str" -> v.s # ""
      [] v.k = "int" -> v.n # 0
      [] v.k = "bool" -> v.b
      [] OTHER -> v.items # <<>>

LogDirDecl == [full_name |-> "--log_dir", short_name |-> "-ld", default |-> None,
               dtype |-> "str", nargs |-> NoNargs]

\* _ParserNode.parse_args up to its call of get_log_dir, one operator for
\* each step, the last step first; the value is the pair of arguments of
\* that call.

\* get_log_dir(try_get_value('config'), try_get_value('msg')): '-'.join
\* takes strings only.
LogDirArgs(c, config, msg) ==
    IF config.err # "" THEN Fail(c, config.err)
    ELSE IF msg.err # "" THEN Fail(c, msg.err)
    ELSE IF \E v \in {config.val, msg.val} : Truthy(v) /\ v.k # "str"
         THEN Fail(c, "TypeError")
    ELSE Done(c, [config |-> config.val, msg |-> msg.val])

\* a = self.add_argument('--log_dir', '-ld', dtype=str, force=True)
AfterLogDirDecl(a) ==
    IF a.err # "" THEN a
    ELSE LogDirArgs(a.c, try_get_value(a.c, "config"), try_get_value(a.c, "msg"))

\* Use CLI args to override all.
AfterCli(cli) ==
    IF cli.err # "" THEN cli ELSE AfterLogDirDecl(add_argument(cli.c, LogDirDecl, TRUE))

AfterCfg(cfg) ==
    IF cfg.err # "" THEN cfg
    ELSE AfterCli(ParseCliArgs(cfg.c, TrieValues(cfg.c.node.cli_unparsed)))

\* if any([self._parse_one_arg('--unsafe'), self._parse_one_arg('-u')])
AfterUnsafe(u1, u2) ==
    IF u2.err # "" THEN u2
    ELSE AfterCfg(UseCfgDefaults(IF u1.val # None \/ u2.val # None
                                 THEN [u2.c EXCEPT !.unsafe = TRUE] ELSE u2.c))

AfterUnsafeFull(u1) ==
    IF u1.err # "" THEN u1 ELSE AfterUnsafe(u1, _parse_one_arg(u1.c, "-u"))

\* A faulty variant of AfterTokenize: only --help asks for help.
LongHelpOnly(tok, av) ==
    IF tok.err # "" THEN tok
    ELSE IF \E k \in 1..Len(av) : av[k] = "--help" THEN Fail(tok.c, "SystemExit")
    ELSE AfterUnsafeFull(_parse_one_arg(tok.c, "--unsafe"))

\* Deal with help.
AfterTokenize(tok, av) ==
    IF tok.err # "" THEN tok
    ELSE IF \E k \in 1..Len(av) : av[k] \in {"--help", "-h"} THEN Fail(tok.c, "SystemExit")
    ELSE AfterUnsafeFull(_parse_one_arg(tok.c, "--unsafe"))

\* A faulty variant of ParseArgsBody: a parsed node is parsed again.
ParseAgain(c0, av) ==
    AfterTokenize(Tokenize([c0 EXCEPT !.node.cli_unparsed = EmptyMap], av, 1), av)

\* A faulty variant of ParseArgsBody: the node is marked parsed at the
\* start of the call.
ParsedAtStart(c0, av) ==
    IF c0.node.parsed THEN handle_error(c0, "ParsedError")
    ELSE AfterTokenize(Tokenize([c0 EXCEPT !.node.cli_unparsed = EmptyMap,
                                           !.node.parsed = TRUE], av, 1), av)

ParseArgsBody(c0, av) ==
    IF c0.node.parsed THEN handle_error(c0, "ParsedError")
    ELSE AfterTokenize(Tokenize([c0 EXCEPT !.node.cli_unparsed = EmptyMap], av, 1), av)

\* One pass of the loop of get_log_dir: the path it tries at time now.
LogDirPath(config, msg, now) ==
    "log/" \o (IF Truthy(config) THEN config.s \o "-" ELSE "")
           \o (IF Truthy(msg) THEN msg.s \o "-" ELSE "")
           \o IntToStr(now)

\* A faulty variant of ResolvedArgs: the defaults, not the values.
ResolvedDefaults(node) ==
    [n \in {node.objs[node.args[k].arg].name : k \in DOMAIN node.args} |->
        node.objs["--" \o n].default]

\* The dict the module-level parse_args returns.
ResolvedArgs(node) ==
    [n \in {node.objs[node.args[k].arg].name : k \in DOMAIN node.args} |->
        node.objs["--" \o n].value]

\* _ParserNode.__init__.
NewNode(command_name, is_unsafe) ==
    LET n0 == [command_name |-> command_name, args |-> EmptyMap, arg_views |-> EmptyMap,
               objs |-> EmptyMap, registry |-> None, parsed |-> FALSE, cli_unparsed |-> None]
        c0 == [node |-> n0, unsafe |-> is_unsafe, cli_idx |-> 0, cfg_idx |-> 0]
        a1 == add_argument(c0, [full_name |-> "--unsafe", short_name |-> "-u", default |-> None,
                                dtype |-> "bool", nargs |-> NoNargs], TRUE)
        a2 == add_argument(a1.c, [full_name |-> "--msg", short_name |-> "-m", default |-> None,
                                  dtype |-> "str", nargs |-> NoNargs], TRUE)
    IN  a2.c.node

add_cfg_registry(c, registry) ==
    add_argument([c EXCEPT !.node.registry = registry],
                 [full_name |-> "--config", short_name |-> "-cfg", default |-> VStr(""),
                  dtype |-> "str", nargs |-> NoNargs], TRUE)

----------------------------------------------------------------------------
(* The module-level API of parser.py as actions on the process state.      *)

Idle == [at |-> "idle"]

\* _get_node(None): the default node, created on first use.
_get_node == IF default_node \in DOMAIN nodes THEN nodes
             ELSE Put(nodes, default_node, NewNode(default_node, unsafe))

Context == [node |-> _get_node[default_node], unsafe |-> unsafe,
            cli_idx |-> cli_idx, cfg_idx |-> cfg_idx]

\* The process state after a node method returned or raised with context c.
Commit(c) ==
    /\ nodes' = Put(_get_node, default_node, c.node)
    /\ unsafe' = c.unsafe
    /\ cli_idx' = c.cli_idx
    /\ cfg_idx' = c.cfg_idx

Call(op, arg, err, val) ==
    [op |-> op, node |-> default_node, arg |-> arg, err |-> err, val |-> val]

\* parser.add_argument(full_name, short_name, default, dtype, nargs):
\* return a.value
AddReturned(d, r) ==
    /\ Commit(r.c)
    /\ ret' = Call("add_argument", d, r.err,
                   IF r.err = "" THEN r.c.node.objs[r.val.arg].value ELSE None)

AddArgument(d) ==
    /\ pc = Idle
    /\ AddReturned(d, add_argument(Context, d, FALSE))
    /\ UNCHANGED <<commands, tracker, default_node, argv, pc, fs, clock>>

\* parser.get_argument(name): node.get_argument(name, view_ok=False).value
GetReturned(name, c, a) ==
    /\ Commit(c)
    /\ ret' = IF a.err # "" THEN Call("get_argument", name, a.err, None)
              ELSE IF a.val = None THEN Call("get_argument", name, "AttributeError", None)
              ELSE Call("get_argument", name, "", c.node.objs[a.val.arg].value)

\* A faulty variant of GetArgument: the look-up is made on the node "_root"
\* whatever the default node.
RootContext == [node |-> IF "_root" \in DOMAIN nodes THEN nodes["_root"]
                         ELSE _get_node[default_node],
                unsafe |-> unsafe, cli_idx |-> cli_idx, cfg_idx |-> cfg_idx]

GetFromRoot(name) ==
    /\ pc = Idle
    /\ ret' = IF get_argument(RootContext, name, FALSE).err # ""
                 \/ get_argument(RootContext, name, FALSE).val = None
              THEN Call("get_argument", name, "NameError", None)
              ELSE Call("get_argument", name, "",
                        RootContext.node.objs[get_argument(RootContext, name, FALSE).val.arg].value)
    /\ Commit(Context)
    /\ UNCHANGED <<commands, tracker, default_node, argv, pc, fs, clock>>

\* A faulty variant of GetArgument: the look-up goes through the views.
GetThroughViews(name) ==
    /\ pc = Idle
    /\ GetReturned(name, Context, get_argument(Context, name, TRUE))
    /\ UNCHANGED <<commands, tracker, default_node, argv, pc, fs, clock>>

GetArgument(name) ==
    /\ pc = Idle
    /\ GetReturned(name, Context, get_argument(Context, name, FALSE))
    /\ UNCHANGED <<commands, tracker, default_node, argv, pc, fs, clock>>

\* parser.set_argument(name, value)
SetReturned(name, value, r) ==
    /\ Commit(r.c)
    /\ ret' = Call("set_argument", [name |-> name, value |-> value], r.err, None)

SetArgument(name, value) ==
    /\ pc = Idle
    /\ SetReturned(name, value, set_argument(Context, name, value))
    /\ UNCHANGED <<commands, tracker, default_node, argv, pc, fs, clock>>

\* Argument(full_name, short_name, default=..., dtype=..., nargs=...), called
\* outside any node as argument_test.py does.
Constructed(d, a) ==
    ret' = Call("Argument", d, a.err, IF a.err = "" THEN a.arg.value ELSE None)

ConstructArgument(d) ==
    /\ pc = Idle
    /\ Constructed(d, NewArgument(d.full_name, d.short_name, d.default, d.dtype, d.nargs,
                                   FALSE))
    /\ UNCHANGED <<commands, tracker, nodes, default_node, unsafe, cli_idx, cfg_idx, argv, pc, fs, clock>>

\* a < b for two Index objects, called outside any node.
CompareIndex(a, b) ==
    /\ pc = Idle
    /\ ret' = Call("Index.__lt__", <<a, b>>, IndexLt(a, b).err,
                   IF IndexLt(a, b).err = "" THEN VBool(IndexLt(a, b).val) ELSE None)
    /\ UNCHANGED <<commands, tracker, nodes, default_node, unsafe, cli_idx, cfg_idx, argv, pc, fs, clock>>

\* parser.add_cfg_registry(registry)
RegistryReturned(registry, r) ==
    /\ Commit(r.c)
    /\ ret' = Call("add_cfg_registry", registry, r.err, None)

AddCfgRegistry(registry) ==
    /\ pc = Idle
    /\ RegistryReturned(registry, add_cfg_registry(Context, registry))
    /\ UNCHANGED <<commands, tracker, default_node, argv, pc, fs, clock>>

\* parser.set_default_parser(name)
SetDefaultParser(name) ==
    /\ pc = Idle
    /\ default_node' = name
    /\ ret' = [op |-> "set_default_parser", node |-> name, arg |-> name,
               err |-> "", val |-> None]
    /\ UNCHANGED <<commands, tracker, nodes, unsafe, cli_idx, cfg_idx, argv, pc, fs, clock>>

\* parser.clear(): _NODES = dict(); _ParserNode._unsafe = False
Clear ==
    /\ pc = Idle
    /\ nodes' = EmptyMap
    /\ unsafe' = FALSE
    /\ ret' = Call("clear", None, "", None)
    /\ UNCHANGED <<commands, tracker, default_node, cli_idx, cfg_idx, argv, pc, fs, clock>>

\* The token counters grow with every parse_args; MaxIdx caps them.
MaxIdx == 3

\* parser.parse_args(), up to the call of get_log_dir.  help() ends the
\* process (sys.exit(0)).
ParseReached(r) ==
    /\ Commit(r.c)
    /\ pc' = IF r.err = "SystemExit" THEN [at |-> "exit"]
             ELSE IF r.err # "" THEN Idle
             ELSE [at |-> "log_dir", config |-> r.val.config, msg |-> r.val.msg]
    /\ ret' = Call(IF r.err = "" THEN "get_log_dir" ELSE "parse_args", argv, r.err, None)

ParseArgs ==
    /\ pc = Idle
    /\ cli_idx < MaxIdx /\ cfg_idx < MaxIdx
    /\ ParseReached(ParseArgsBody(Context, argv))
    /\ UNCHANGED <<commands, tracker, default_node, argv, fs, clock>>

\* get_log_dir: os.makedirs(log_dir) succeeded, the loop breaks and
\* parse_args runs to its end: a.value = log_dir, self._parsed = True.
Parsed(r) == [r.c EXCEPT !.node.parsed = TRUE]

\* A faulty variant of LogDirMade: makedirs takes a directory that exists.
LogDirReused(log_dir, c) ==
    /\ fs' = fs \cup {log_dir}
    /\ Commit(c)
    /\ ret' = Call("parse_args", argv, "", ResolvedArgs(c.node))

LogDirMade(log_dir, c) ==
    /\ log_dir \notin fs
    /\ fs' = fs \cup {log_dir}
    /\ Commit(c)
    /\ ret' = Call("parse_args", argv, "", ResolvedArgs(c.node))

LogDirDone ==
    /\ pc.at = "log_dir"
    /\ LogDirMade(LogDirPath(pc.config, pc.msg, clock),
                  Parsed(AssignValue(Context, ArgRef("--log_dir"),
                                     VStr(LogDirPath(pc.config, pc.msg, clock)))))
    /\ pc' = Idle
    /\ UNCHANGED <<commands, tracker, default_node, argv, clock>>

\* get_log_dir: os.makedirs(log_dir) raised OSError (the directory exists,
\* or the file system refused); sleep one second and try again.  The path
\* is made of the month, the day and the time of day, so that it comes
\* round again: the MaxClock + 1 ticks stand for the year.
MaxClock == 2

LogDirRetry ==
    /\ pc.at = "log_dir"
    /\ clock' = (clock + 1) % (MaxClock + 1)
    /\ UNCHANGED <<commands, tracker, nodes, default_node, unsafe, cli_idx, cfg_idx, argv, pc, fs, ret>>

----------------------------------------------------------------------------
(* Inputs and specifications.                                              *)

Decl(full_name, short_name, default, dtype, nargs) ==
    [full_name |-> full_name, short_name |-> short_name, default |-> default,
     dtype |-> dtype, nargs |-> nargs]

InitWith(argvs) ==
    /\ nodes = EmptyMap
    /\ default_node = "_root"
    /\ unsafe = FALSE
    /\ cli_idx = 0
    /\ cfg_idx = 0
    /\ argv \in argvs
    /\ pc = Idle
    /\ fs = {}
    /\ clock = 0
    /\ ret = [op |-> "none"]
    /\ commands = None
    /\ tracker = None

\* Spec: declarations and lookups, before and after parse_args, with
\* clear() and the retries of get_log_dir.
Decls == {
    Decl("--x", "-x", VInt(0), "int", NoNargs),
    Decl("--xy", NoName, VStr("a"), "None", NoNargs),
    Decl("--y", "-x", VInt(1), "None", NoNargs),
    Decl("--v", "-v", VBool(FALSE), "bool", NoNargs),
    Decl("--help", NoName, None, "None", NoNargs),
    Decl("-h", NoName, None, "None", NoNargs),
    Decl("--z", "-u", None, "None", NoNargs) }

Names == {"x", "--x", "-x", "--xy", "--no_v", "--", "-", "zz", "--m", "--n"}

Argvs == { <<>>, <<"-u">>, <<"--x", "2">> }

Init == InitWith(Argvs)

Next ==
    \/ \E d \in Decls : AddArgument(d)
    \/ \E n \in Names : GetArgument(n)
    \/ ParseArgs
    \/ LogDirDone
    \/ LogDirRetry
    \/ Clear

Spec == Init /\ [][Next]_vars

\* SpecCfg: a profile registry is bound; profile fields against CLI tokens.
Registry == [profiles |-> [p \in {"T"} |-> <<[name |-> "x", value |-> VInt(1)]>>]]

CfgDecls == {
    Decl("--x", "-x", VInt(0), "int", NoNargs),
    Decl("--xy", NoName, VStr("a"), "None", NoNargs) }

CfgArgvs == {
    <<"-cfg", "T">>,
    <<"-cfg", "T", "--x", "2">>,
    <<"-x", "3", "-cfg", "T", "--x", "2">>,
    <<"--x", "2", "-cfg", "T", "-u">>,
    <<"-u", "--config", "T", "-x", "2">>,
    <<"--xy", "b", "-cfg", "T">>,
    <<"-cfg", "T", "-u">>,
    <<"--x", "2">>,
    <<"-u">> }

InitCfg == InitWith(CfgArgvs)

NextCfg ==
    \/ AddCfgRegistry(Registry)
    \/ \E d \in CfgDecls : AddArgument(d)
    \/ GetArgument("x")
    \/ ParseArgs
    \/ LogDirDone

SpecCfg == InitCfg /\ [][NextCfg]_vars

\* SpecCli: the resolution of CLI tokens, no registry: several spellings of
\* one argument in both orders, flags with either default, tokens that name
\* nothing, in safe and in unsafe mode, an abbreviation that the spellings
\* of log_dir start with as well.
CliDecls == {
    Decl("--x", "-x", VInt(0), "int", NoNargs),
    Decl("--xy", NoName, VStr("a"), "None", NoNargs),
    Decl("--verbose", "-v", VBool(FALSE), "bool", NoNargs),
    Decl("--verbose", "-v", VBool(TRUE), "bool", NoNargs),
    Decl("--lr", NoName, VInt(0), "int", NoNargs) }

CliArgvs == {
    <<"--x", "1", "-x", "2">>,
    <<"-x", "2", "--x", "1">>,
    <<"--x", "1", "--x", "2">>,
    <<"--verbose", "--no_verbose">>,
    <<"-no_v", "--verb">>,
    <<"--verbose">>,
    <<"-v">>,
    <<"--no_verbose">>,
    <<"-no_v">>,
    <<"--zz", "1">>,
    <<"--x", "--zz", "1">>,
    <<"--zz", "--help">>,
    <<"-u", "--zz", "1">>,
    <<"-u", "--x", "1", "-x", "2">>,
    <<"-u", "-x", "2", "--x", "1">>,
    <<"-u", "--no_verb">>,
    <<"--unsafe">>,
    <<"--no_unsafe">>,
    <<"-no_u", "--zz", "1">>,
    <<"-u", "--x", "1", "-h">>,
    <<"zz", "--help">>,
    <<"---x", "-h">>,
    <<"-x", "5">>,
    <<"-u", "--l", "3">>,
    <<"-u", "--lr", "3">>,
    <<"-u", "--zz", "1", "2">>,
    <<"-u", "--x", "1">> }

InitCli == InitWith(CliArgvs)

NextCli ==
    \/ \E d \in CliDecls : AddArgument(d)
    \/ \E n \in {"x", "--xy", "verbose", "zz", "--no_verbose", "-no_v"} : GetArgument(n)
    \/ ParseArgs
    \/ LogDirDone

SpecCli == InitCli /\ [][NextCli]_vars

\* SpecLive: parse_args on the command lines of SpecCli with a call to
\* get_log_dir that goes on: the loop takes its next step, the success of
\* os.makedirs being the file system's choice.
NextLive ==
    \/ ParseArgs
    \/ LogDirDone
    \/ LogDirRetry

SpecLive == InitCli /\ [][NextLive]_vars /\ WF_<<pc, clock, fs>>(LogDirDone \/ LogDirRetry)

\* SpecArity: CLI tokens with no value, one value and several values
\* against arguments of every arity: 0 (flag), 1, a fixed number, '+',
\* in safe mode and, for declarations that come after parse_args, in
\* unsafe mode.
ArityDecls == {
    Decl("--x", "-x", VInt(0), "int", NoNargs),
    Decl("--l", NoName, VInt(1), "int", PLUS),
    Decl("--p", NoName, None, "int", 2),
    Decl("--v", NoName, VBool(FALSE), "bool", NoNargs),
    Decl("q", NoName, VInt(0), "int", NoNargs),
    Decl("--msg", NoName, VInt(0), "int", NoNargs) }

ArityArgvs == {
    <<"--l">>, <<"--l", "1">>, <<"--l", "1", "2">>,
    <<"--p">>, <<"--p", "1">>, <<"--p", "1", "2">>, <<"--p", "1", "2", "3">>,
    <<"--x">>, <<"--x", "1">>, <<"--x", "1", "2">>,
    <<"--v">>, <<"--v", "1">>, <<"--no_v", "1">>,
    <<"--l", "2", "--x", "1", "2">>,
    <<"-u", "--x">>, <<"-u", "--x", "1">>, <<"-u", "--x", "1", "2">>,
    <<"-u", "--p", "1">>, <<"-u", "--p", "1", "2">>, <<"-u", "--v", "1">> }

InitArity == InitWith(ArityArgvs)

NextArity ==
    \/ \E d \in ArityDecls : AddArgument(d)
    \/ \E n \in {"x", "l", "p", "v"} : GetArgument(n)
    \/ ParseArgs
    \/ LogDirDone

SpecArity == InitArity /\ [][NextArity]_vars

\* SpecSet: set_argument and get_argument with scalars, a tuple and None,
\* by names, abbreviations and negative spellings, before and after
\* parse_args.
SetDecls == {
    Decl("--x", "-x", VInt(0), "int", NoNargs),
    Decl("--xy", NoName, VBool(FALSE), "bool", NoNargs),
    Decl("--s", NoName, VStr("a"), "None", NoNargs) }

SetNames == {"x", "s", "xy", "--no_xy"}

SetValues == {VInt(5), VStr("7"), VBool(TRUE), VTuple(<<VInt(1), VInt(2)>>)}

SetArgvs == { <<"--x", "2">>, <<"--xy">> }

InitSet == InitWith(SetArgvs)

NextSet ==
    \/ \E d \in SetDecls : AddArgument(d)
    \/ \E n \in SetNames : \E v \in SetValues : SetArgument(n, v)
    \/ \E n \in SetNames : GetArgument(n)
    \/ ParseArgs
    \/ LogDirDone

SpecSet == InitSet /\ [][NextSet]_vars

\* SpecArg: Argument(...) with names of every format, typed and untyped,
\* and the comparison of indices of either source.
ArgFullNames == {"--x", "-x", "x", "---x", "--no_x", "--", "-no_x", "--option1"}
ArgShortNames == {NoName, "-x", "--o1", "o1", "-no_x", "-", "---x"}
ArgTypes == {[dtype |-> "None", default |-> None],
             [dtype |-> "int", default |-> VInt(0)],
             [dtype |-> "bool", default |-> VBool(TRUE)]}

ArgInputs == {Decl(f, sh, t.default, t.dtype, NoNargs) :
                 f \in ArgFullNames, sh \in ArgShortNames, t \in ArgTypes}

InitArg == InitWith({<<>>})

Indices == {Index(src, i) : src \in {"CONFIG", "CLI"}, i \in 0..MaxIdx}

NextArg ==
    \/ \E d \in ArgInputs : ConstructArgument(d)
    \/ \E a \in Indices : \E b \in Indices : CompareIndex(a, b)

SpecArg == InitArg /\ [][NextArg]_vars

\* SpecClear: the API on two command nodes, with clear() in between.
NodeNames == {"_root", "another"}

InitClear == InitWith({<<>>, <<"-u">>})

NextClear ==
    \/ \E n \in NodeNames : SetDefaultParser(n)
    \/ Clear
    \/ \E d \in CfgDecls : AddArgument(d)
    \/ GetArgument("x")
    \/ SetArgument("x", VInt(5))
    \/ ParseArgs
    \/ LogDirDone

SpecClear == InitClear /\ [][NextClear]_vars

\* SpecShared: two nodes that are parsed one after the other, the second
\* after the retries of get_log_dir, with declarations and look-ups on both.
NextShared ==
    \/ \E n \in NodeNames : SetDefaultParser(n)
    \/ Clear
    \/ AddArgument(Decl("--x", "-x", VInt(0), "int", NoNargs))
    \/ GetArgument("x")
    \/ ParseArgs
    \/ LogDirDone
    \/ LogDirRetry

SpecShared == InitClear /\ [][NextShared]_vars

----------------------------------------------------------------------------
(* argparser.py: the command tree of ArgParser.  commands.objs holds the   *)
(* _CommandNode objects in creation order (object 1 is the root command of *)
(* ArgParser(), named after sys.argv[0]); commands.name2command is the     *)
(* dict shared by every ArgParser of the tree.  An ArgParser is known by   *)
(* the object that is its root_command; cfg_cls is None, no bool flags are *)
(* declared and parse_args is called with to_log=False.  ArgumentParser is *)
(* the standard library's: an element selects the option spelled so, else  *)
(* the long options it is a prefix of; a stored option takes the next      *)
(* element as its value unless that starts with a dash; every failure of   *)
(* parsing, and -h, is SystemExit.                                         *)

_CommandNode(name, cmd_name, parent) ==
    [parent |-> parent, name |-> name, cmd_name |-> cmd_name, children |-> <<>>,
     argument_info |-> <<>>]

is_leaf(command) == command.children = <<>>

\* ArgParser.add_command(name) of the parser whose root_command is root.
add_command(cs, root, name) ==
    [objs |-> Append([cs.objs EXCEPT ![root].children = Append(@, Len(cs.objs) + 1)],
                     _CommandNode(cs.objs[root].name \o "=>" \o name, name, root)),
     name2command |-> Put(cs.name2command, cs.objs[root].name \o "=>" \o name,
                          Len(cs.objs) + 1)]

\* _base_parser.parse_known_args(): the value given to --config/-cfg.
BaseParser(av) ==
    LET hits == {i \in 1..Len(av) :
                    \/ av[i] \in {"--config", "-cfg"}
                    \/ StartsWith(av[i], "--") /\ Len(av[i]) > 2 /\ StartsWith("--config", av[i])}
    IN  IF hits = {} THEN Ok(None)
        ELSE IF \E i \in hits : i = Len(av) \/ StartsWith(av[i + 1], "-")
        THEN Raise("SystemExit")
        ELSE Ok(VStr(av[(CHOOSE i \in hits : \A j \in hits : j <= i) + 1]))

\* The while loop of parse_args; sys.argv[i] is av[i], sys.argv[0] being
\* the program.  KeyError and IndexError become CommandException.
RECURSIVE FollowCommands(_, _, _, _, _)
FollowCommands(cs, command, av, i, chain) ==
    IF is_leaf(cs.objs[command]) THEN [err |-> "", chain |-> chain, i |-> i]
    ELSE IF i > Len(av) THEN [err |-> "CommandException", chain |-> chain, i |-> i]
    ELSE IF cs.objs[command].name \o "=>" \o av[i] \notin DOMAIN cs.name2command
    THEN [err |-> "CommandException", chain |-> chain, i |-> i]
    ELSE FollowCommands(cs, cs.name2command[cs.objs[command].name \o "=>" \o av[i]],
                        av, i + 1,
                        Append(chain, cs.name2command[cs.objs[command].name \o "=>" \o av[i]]))

\* info: the argument_info of the commands of the chain, in order.
RECURSIVE ChainInfo(_, _)
ChainInfo(cs, chain) ==
    IF chain = <<>> THEN <<>>
    ELSE cs.objs[Head(chain)].argument_info \o ChainInfo(cs, Tail(chain))

\* parser.parse_args(sys.argv[i:]) over the option strings opts; ns is the
\* namespace.
RECURSIVE ParseElements(_, _, _, _)
ParseElements(opts, av, i, ns) ==
    IF i > Len(av) THEN Ok(ns)
    ELSE LET e == av[i]
             sel == IF \E k \in 1..Len(opts) : opts[k] = e THEN {e}
                    ELSE IF StartsWith(e, "--") /\ Len(e) > 2
                    THEN {opts[k] : k \in {j \in 1..Len(opts) : StartsWith(opts[j], e)}}
                    ELSE {}
         IN  IF Cardinality(sel) # 1 THEN Raise("SystemExit")
             ELSE IF sel \subseteq {"-h", "--help"} THEN Raise("SystemExit")
             ELSE IF i = Len(av) \/ StartsWith(av[i + 1], "-") THEN Raise("SystemExit")
             ELSE ParseElements(opts, av, i + 2,
                      [ns EXCEPT ![IF sel = {"-cfg"} THEN "config"
                                   ELSE Drop(CHOOSE f \in sel : TRUE, 2)] = VStr(av[i + 1])])

\* '-'.join(name.split('=>')[1:]); head tells whether the first piece is
\* still being skipped.
RECURSIVE JoinMode(_, _)
JoinMode(name, head) ==
    IF name = "" THEN ""
    ELSE IF StartsWith(name, "=>")
    THEN (IF head THEN "" ELSE "-") \o JoinMode(Drop(name, 2), FALSE)
    ELSE (IF head THEN "" ELSE SubSeq(name, 1, 1)) \o JoinMode(Drop(name, 1), head)

\* parse_args from the construction of the ArgumentParser on; w is the
\* outcome of the walk, config the value of --config.
BuildAndParse(cs, av, w, config) ==
    IF w.err # "" THEN Raise(w.err)
    ELSE LET info == ChainInfo(cs, w.chain)
             opts == <<"--config", "-cfg", "-h", "--help">> \o info
             ns0 == [d \in {"config"} \cup {Drop(info[k], 2) : k \in 1..Len(info)} |->
                        IF d = "config" THEN config ELSE None]
             parsed == ParseElements(opts, av, w.i, ns0)
         IN  IF \E j, k \in 1..Len(opts) : j < k /\ opts[j] = opts[k]
             THEN Raise("ArgumentError")
             ELSE IF parsed.err # "" THEN parsed
             ELSE Ok([args |-> parsed.val,
                      mode |-> JoinMode(cs.objs[w.chain[Len(w.chain)]].name, TRUE),
                      log_dir |-> None])

\* ArgParser.parse_args(to_log=False) of the parser whose root_command is
\* root.
ArgParserParseArgs(cs, root, av) ==
    IF BaseParser(av).err # "" THEN BaseParser(av)
    ELSE IF BaseParser(av).val \notin {None, VStr("")} THEN Raise("AssertionError")
    ELSE BuildAndParse(cs, av, FollowCommands(cs, root, av, 1, <<root>>), BaseParser(av).val)

MaxCommands == 3
MaxOptions == 2

OptionCount(cs) ==
    Cardinality({<<c, k>> \in (1..Len(cs.objs)) \X (1..MaxOptions) :
                    k <= Len(cs.objs[c].argument_info)})

\* parser.add_command(name)
CmdAddCommand(root, name) ==
    /\ commands # None
    /\ root \in 1..Len(commands.objs)
    /\ Len(commands.objs) < MaxCommands
    /\ commands' = add_command(commands, root, name)
    /\ ret' = Call("ArgParser.add_command", name, "", Len(commands.objs) + 1)
    /\ UNCHANGED <<tracker, nodes, default_node, unsafe, cli_idx, cfg_idx, argv, pc, fs, clock>>

\* parser.add_argument(option)
CmdAddArgument(root, option) ==
    /\ commands # None
    /\ root \in 1..Len(commands.objs)
    /\ OptionCount(commands) < MaxOptions
    /\ commands' = [commands EXCEPT !.objs[root].argument_info = Append(@, option)]
    /\ ret' = Call("ArgParser.add_argument", option, "", None)
    /\ UNCHANGED <<tracker, nodes, default_node, unsafe, cli_idx, cfg_idx, argv, pc, fs, clock>>

\* parser.parse_args(to_log=False)
CmdParseArgs(root) ==
    /\ commands # None
    /\ root \in 1..Len(commands.objs)
    /\ ret' = [Call("ArgParser.parse_args", root, ArgParserParseArgs(commands, root, argv).err,
                    ArgParserParseArgs(commands, root, argv).val)
               EXCEPT !.node = root]
    /\ UNCHANGED <<commands, tracker, nodes, default_node, unsafe, cli_idx, cfg_idx, argv, pc, fs, clock>>

\* SpecCmd: a tree of commands is declared and the command line is parsed
\* by the parser of any command of the tree.
InitCmd ==
    /\ nodes = EmptyMap
    /\ default_node = "_root"
    /\ unsafe = FALSE
    /\ cli_idx = 0
    /\ cfg_idx = 0
    /\ argv \in { <<>>, <<"a">>, <<"a", "b">>, <<"a", "--x", "1">>,
                  <<"a", "b", "--x", "1", "--y", "2">>, <<"a=>b">>, <<"a=>b", "--x", "1">>,
                  <<"a", "w">>, <<"a", "--config", "T">>, <<"a", "--x">> }
    /\ pc = Idle
    /\ fs = {}
    /\ clock = 0
    /\ ret = [op |-> "none"]
    /\ commands = [objs |-> <<_CommandNode("prog", "", 0)>>,
                   name2command |-> Put(EmptyMap, "prog", 1)]
    /\ tracker = None

NextCmd ==
    \/ \E root \in 1..MaxCommands, name \in {"a", "b"} : CmdAddCommand(root, name)
    \/ \E root \in 1..MaxCommands, option \in {"--x", "--y"} : CmdAddArgument(root, option)
    \/ \E root \in 1..MaxCommands : CmdParseArgs(root)

SpecCmd == InitCmd /\ [][NextCmd]_vars

----------------------------------------------------------------------------
(* tracker.py: the schedule of a Tracker.  tracker.stages holds the _Stage *)
(* objects in creation order (stage 1 is the _Schedule, whose num_steps is *)
(* 1), each with its substages; tracker.path is the list _nodes of the     *)
(* _Path, <<>> before fix_schedule; tracker.pbars is the count of the      *)
(* progress bar of each stage that has one.  Python's list positions       *)
(* start at 0: substages[k] is the model's substages[k + 1].               *)

NoSubstage == 0 - 1

_Node(stage, step, substage_idx) ==
    [stage |-> stage, step |-> step, substage_idx |-> substage_idx]

\* _Node.is_last
is_last(tr, node) ==
    IF tr.stages[node.stage].substages # <<>>
    THEN /\ node.substage_idx = Len(tr.stages[node.stage].substages) - 1
         /\ node.step = tr.stages[node.stage].num_steps - 1
    ELSE node.step = tr.stages[node.stage].num_steps - 1

\* _Node.next_node: the node and whether the step was incremented.
next_node(tr, node) ==
    IF tr.stages[node.stage].substages # <<>>
    THEN IF node.substage_idx + 1 = Len(tr.stages[node.stage].substages)
         THEN [node |-> _Node(node.stage, node.step + 1, 0), incremented |-> TRUE]
         ELSE [node |-> _Node(node.stage, node.step, node.substage_idx + 1),
               incremented |-> FALSE]
    ELSE [node |-> _Node(node.stage, node.step + 1, NoSubstage), incremented |-> TRUE]

\* _Path._add on the list p.nodes; assert safe.
_add(tr, p, node) ==
    IF p.err # "" THEN p
    ELSE IF p.nodes = <<>> THEN [p EXCEPT !.nodes = <<node>>]
    ELSE LET last_node == p.nodes[Len(p.nodes)]
             substages == tr.stages[last_node.stage].substages
         IN  IF last_node.substage_idx = NoSubstage THEN [p EXCEPT !.err = "TypeError"]
             ELSE IF last_node.substage_idx >= Len(substages)
             THEN [p EXCEPT !.err = "IndexError"]
             ELSE IF substages[last_node.substage_idx + 1] # node.stage
             THEN [p EXCEPT !.err = "AssertionError"]
             ELSE [p EXCEPT !.nodes = Append(@, node)]

\* _get_first_path.helper on a _Stage.
RECURSIVE FirstPathOfStage(_, _, _)
FirstPathOfStage(tr, p, stage) ==
    IF tr.stages[stage].substages # <<>>
    THEN FirstPathOfStage(tr, _add(tr, p, _Node(stage, 0, 0)), tr.stages[stage].substages[1])
    ELSE _add(tr, p, _Node(stage, 0, NoSubstage))

\* _get_first_path.helper on a _Node.
RECURSIVE FirstPathOfNode(_, _, _)
FirstPathOfNode(tr, p, node) ==
    IF p.err # "" THEN p
    ELSE IF tr.stages[node.stage].substages # <<>>
    THEN IF node.substage_idx = NoSubstage THEN [_add(tr, p, node) EXCEPT !.err = "TypeError"]
         ELSE IF node.substage_idx >= Len(tr.stages[node.stage].substages)
         THEN [_add(tr, p, node) EXCEPT !.err = IF @ = "" THEN "IndexError" ELSE @]
         ELSE FirstPathOfNode(tr, _add(tr, p, node),
                  _Node(tr.stages[node.stage].substages[node.substage_idx + 1], 0, 0))
    ELSE _add(tr, p, node)

\* _Stage.update_pbars of the stages of the affected nodes: a bar that is
\* full starts again.
RECURSIVE UpdatePbars(_, _, _)
UpdatePbars(tr, pbars, affected_nodes) ==
    IF affected_nodes = <<>> THEN pbars
    ELSE UpdatePbars(tr,
             IF Head(affected_nodes).stage \in DOMAIN pbars
             THEN [pbars EXCEPT ![Head(affected_nodes).stage] =
                      IF @ = tr.stages[Head(affected_nodes).stage].num_steps THEN 1 ELSE @ + 1]
             ELSE pbars,
             Tail(affected_nodes))

\* _Path.next_path, then _Schedule.update on the nodes it returns.
next_path(tr) ==
    IF tr.finished THEN [tr |-> tr, err |-> "AssertionError"]
    ELSE LET open == {k \in 1..Len(tr.path) : ~is_last(tr, tr.path[k])}
             i == CHOOSE k \in open : \A j \in open : j <= k
             nn == next_node(tr, tr.path[i])
             p == FirstPathOfNode(tr, [nodes |-> SubSeq(tr.path, 1, i - 1), err |-> ""], nn.node)
         IN  IF open = {}
             THEN [tr |-> [tr EXCEPT !.finished = TRUE,
                                     !.pbars = UpdatePbars(tr, @, Tail(tr.path))],
                   err |-> ""]
             ELSE IF p.err # "" THEN [tr |-> [tr EXCEPT !.path = p.nodes], err |-> p.err]
             ELSE [tr |-> [tr EXCEPT !.path = p.nodes,
                                     !.pbars = UpdatePbars(tr, @,
                                         SubSeq(tr.path, i + 1, Len(tr.path))
                                         \o (IF nn.incremented THEN <<nn.node>> ELSE <<>>))],
                   err |-> ""]

MaxStages == 4
MaxSteps == 2

\* stage.add_stage(name, num_steps) on the stage parent, before the
\* schedule is fixed.
TrkAddStage(parent, num_steps) ==
    /\ tracker # None
    /\ tracker.path = <<>>
    /\ parent \in 1..Len(tracker.stages)
    /\ Len(tracker.stages) < MaxStages
    /\ tracker' = [tracker EXCEPT
          !.stages = Append([@ EXCEPT ![parent].substages = Append(@, Len(tracker.stages) + 1)],
                            [num_steps |-> num_steps, parent |-> parent, substages |-> <<>>]),
          !.pbars = IF num_steps > 1 THEN Put(@, Len(tracker.stages) + 1, 0) ELSE @]
    /\ ret' = Call("add_stage", num_steps, "", [stage |-> Len(tracker.stages) + 1])
    /\ UNCHANGED <<commands, nodes, default_node, unsafe, cli_idx, cfg_idx, argv, pc, fs, clock>>

\* tracker.fix_schedule(): self._path = _Path(self)
TrkFixSchedule ==
    /\ tracker # None
    /\ tracker.path = <<>>
    /\ tracker' = [tracker EXCEPT
          !.path = FirstPathOfStage(tracker, [nodes |-> <<>>, err |-> ""], 1).nodes,
          !.finished = FALSE]
    /\ ret' = Call("fix_schedule", 0, FirstPathOfStage(tracker, [nodes |-> <<>>, err |-> ""], 1).err, None)
    /\ UNCHANGED <<commands, nodes, default_node, unsafe, cli_idx, cfg_idx, argv, pc, fs, clock>>

\* tracker.update(), the schedule being fixed.
TrkUpdate ==
    /\ tracker # None
    /\ tracker.path # <<>>
    /\ \A k \in 1..Len(tracker.path) : tracker.path[k].step <= MaxSteps
    /\ tracker' = next_path(tracker).tr
    /\ ret' = Call("update", 0, next_path(tracker).err, None)
    /\ UNCHANGED <<commands, nodes, default_node, unsafe, cli_idx, cfg_idx, argv, pc, fs, clock>>

\* SpecTrk: a tree of stages is declared under the schedule, the schedule
\* is fixed and update() is called again and again.
InitTrk ==
    /\ nodes = EmptyMap
    /\ default_node = "_root"
    /\ unsafe = FALSE
    /\ cli_idx = 0
    /\ cfg_idx = 0
    /\ argv = <<>>
    /\ pc = Idle
    /\ fs = {}
    /\ clock = 0
    /\ ret = [op |-> "none"]
    /\ commands = None
    /\ tracker = [stages |-> <<[num_steps |-> 1, parent |-> 0, substages |-> <<>>]>>,
                  path |-> <<>>, finished |-> FALSE, pbars |-> EmptyMap]

NextTrk ==
    \/ \E parent \in 1..MaxStages, num_steps \in 0..MaxSteps : TrkAddStage(parent, num_steps)
    \/ TrkFixSchedule
    \/ TrkUpdate

SpecTrk == InitTrk /\ [][NextTrk]_vars

----------------------------------------------------------------------------
(* What the properties speak of.  The command line is read directly, not   *)
(* through the token buffer: the names are the elements that start with a  *)
(* dash, and a name's value is made of the elements up to the next name.   *)

HasNode == default_node \in DOMAIN nodes
Node == nodes[default_node]

NamePositions(av) == {i \in 1..Len(av) : StartsWith(av[i], "-")}

ValuesAfter(av, i, j) ==
    IF j = i + 1 THEN None
    ELSE IF j = i + 2 THEN VStr(av[i + 1])
    ELSE VTuple([k \in 1..(j - i - 1) |-> VStr(av[i + k])])

ValueAt(av, i) ==
    IF \E k \in NamePositions(av) : k > i
    THEN ValuesAfter(av, i, CHOOSE k \in NamePositions(av) :
                                k > i /\ \A o \in NamePositions(av) : o > i => k <= o)
    ELSE ValuesAfter(av, i, Len(av) + 1)

\* The spellings of an argument or declaration: its names, and for a
\* boolean flag the negative spellings as well.
PosSpellings(a) == {a.full_name} \cup (IF a.short_name # NoName THEN {a.short_name} ELSE {})
NegSpellings(a) ==
    IF a.dtype # "bool" THEN {}
    ELSE {"--no_" \o Drop(a.full_name, 2)}
         \cup (IF a.short_name # NoName THEN {"-no_" \o Drop(a.short_name, 1)} ELSE {})
Spellings(a) == PosSpellings(a) \cup NegSpellings(a)

BuiltIn == {"--unsafe", "--msg", "--config", "--log_dir"}
UserArgs(node) == {k \in DOMAIN node.objs : k \notin BuiltIn}

\* The spellings registered on the node, log_dir's aside (parse_args
\* registers them only after it has looked at every token).
Registered(node) == (DOMAIN node.args \cup DOMAIN node.arg_views) \ {"--log_dir", "-ld"}

\* Token name t matches no registered spelling, exactly or as a prefix.
Unmatched(node, t) == ~\E sp \in Registered(node) : StartsWith(sp, t)

\* Token name t names argument a: one of a's spellings, or an abbreviation
\* of one that is itself no registered spelling.
Targets(node, a, t) ==
    \/ t \in Spellings(a)
    \/ t \notin Registered(node) /\ \E sp \in Spellings(a) : StartsWith(sp, t)

TargetPositions(node, a, av) == {i \in NamePositions(av) : Targets(node, a, av[i])}

LastPosition(P) == CHOOSE i \in P : \A o \in P : o <= i

\* The value a token gives argument a: for a flag the polarity of the
\* spelling, otherwise the token's value as the declared type.
Positive(a, t) == \E sp \in PosSpellings(a) : StartsWith(sp, t)

AsType(dtype, v) ==
    IF dtype = "int" /\ v.k = "str" THEN VInt(ParseDigits(v.s, 0)) ELSE v

GivenValue(a, av, i) ==
    IF a.dtype = "bool" THEN VBool(Positive(a, av[i])) ELSE AsType(a.dtype, ValueAt(av, i))

\* parse_args returned; a call is one of parse_args while it is inside
\* get_log_dir or when it has ended.
Completed == ret.op = "parse_args" /\ ret.err = ""
ParseCall == ret.op \in {"parse_args", "get_log_dir"}

\* The fields of the profile parse_args loaded.
ProfileFields(node) ==
    IF node.registry = None \/ "--config" \notin DOMAIN node.objs THEN {}
    ELSE IF node.objs["--config"].value.k # "str" THEN {}
    ELSE IF node.objs["--config"].value.s \notin DOMAIN node.registry.profiles THEN {}
    ELSE {node.registry.profiles[node.objs["--config"].value.s][i] :
             i \in 1..Len(node.registry.profiles[node.objs["--config"].value.s])}

----------------------------------------------------------------------------
\* C1: for an argument declared before parse_args, when the bound profile
\* has a field of its name and a CLI token names it too, its value after
\* parse_args is the value of the last such token as the declared type and
\* not the profile's.
C1_CliOverProfile ==
    Completed =>
        \A k \in UserArgs(Node) :
            (/\ TargetPositions(Node, Node.objs[k], argv) # {}
             /\ \E f \in ProfileFields(Node) : f.name = Node.objs[k].name)
                => /\ ret.val[Node.objs[k].name] =
                          GivenValue(Node.objs[k], argv,
                                     LastPosition(TargetPositions(Node, Node.objs[k], argv)))
                   /\ Node.objs[k].value = ret.val[Node.objs[k].name]

C1_Witness ==
    /\ Completed
    /\ "--x" \in DOMAIN Node.objs
    /\ \E f \in ProfileFields(Node) : f.name = "x" /\ f.value = VInt(1)
    /\ TargetPositions(Node, Node.objs["--x"], argv) # {}
    /\ ret.val["x"] = VInt(2)

\* C2: whenever a profile field and a CLI token name the same argument, the
\* argument holds the CLI token's value once parse_args has completed, also
\* when the argument is declared after parse_args in unsafe mode.
C2_CliAlwaysWins ==
    (HasNode /\ Node.parsed) =>
        \A k \in UserArgs(Node) :
            (/\ TargetPositions(Node, Node.objs[k], argv) # {}
             /\ \E f \in ProfileFields(Node) : f.name = Node.objs[k].name)
                => Node.objs[k].value =
                       GivenValue(Node.objs[k], argv,
                                  LastPosition(TargetPositions(Node, Node.objs[k], argv)))

\* The case of C2 with the argument declared late: parse_args completed in
\* unsafe mode with profile T loaded and "--x 2" on the command line, then
\* --x was declared.
C2_LateCase ==
    /\ ret.op = "add_argument" /\ ret.err = ""
    /\ ret.arg.full_name = "--x"
    /\ Node.parsed /\ unsafe
    /\ Node.objs["--x"].unsafe
    /\ \E f \in ProfileFields(Node) : f.name = "x"
    /\ TargetPositions(Node, Node.objs["--x"], argv) # {}

\* C3: when CLI tokens of whatever spelling name the same argument, its
\* value after parse_args is the one given by the token that arrived last,
\* in whatever order the tokens were processed, and the index it keeps as
\* last applied is that token's: the counter stands one past the last
\* token of the command line.
C3_LastTokenWins ==
    Completed =>
        \A k \in UserArgs(Node) :
            TargetPositions(Node, Node.objs[k], argv) # {}
                => /\ ret.val[Node.objs[k].name] =
                          GivenValue(Node.objs[k], argv,
                                     LastPosition(TargetPositions(Node, Node.objs[k], argv)))
                   /\ Node.objs[k].last_idx =
                          Index("CLI",
                                cli_idx - 1 - Cardinality(
                                    {i \in NamePositions(argv) :
                                        i > LastPosition(TargetPositions(Node, Node.objs[k], argv))}))

\* The short spelling arrived first and is processed last (the buffer is
\* in name order, "--x" before "-x"): the value is still the later token's.
C3_Witness ==
    /\ Completed
    /\ argv = <<"-x", "2", "--x", "1">>
    /\ "--x" \in DOMAIN Node.objs
    /\ ret.val["x"] = VInt(1)

\* C4: a boolean argument named by the single token of the command line is
\* true after parse_args when the token is its full or short name and
\* false when it is the --no_ or -no_ spelling, whatever its default.
C4_FlagPolarity ==
    (Completed /\ Len(argv) = 1) =>
        \A k \in UserArgs(Node) :
            Node.objs[k].dtype = "bool"
                => /\ argv[1] \in PosSpellings(Node.objs[k])
                          => ret.val[Node.objs[k].name] = VBool(TRUE)
                   /\ argv[1] \in NegSpellings(Node.objs[k])
                          => ret.val[Node.objs[k].name] = VBool(FALSE)

C4_Witness ==
    /\ Completed
    /\ argv = <<"-no_v">>
    /\ "--verbose" \in DOMAIN Node.objs
    /\ Node.objs["--verbose"].default = VBool(TRUE)
    /\ ret.val["verbose"] = VBool(FALSE)

\* The tokens of the command line still in the buffer whose name is a
\* spelling of declaration d or a prefix of one, and the one of them that
\* arrived last.
Naming(buffer, d) ==
    {buffer[k] : k \in {n \in DOMAIN buffer :
                           /\ buffer[n].idx.source = "CLI"
                           /\ \E sp \in Spellings(d) : StartsWith(sp, n)}}

LastOf(T) == CHOOSE t \in T : \A o \in T : o.idx.idx <= t.idx.idx

DeclType(d) ==
    IF d.dtype # "None" THEN d.dtype
    ELSE IF d.default # None THEN d.default.k
    ELSE "None"

TokenGives(d, t) ==
    IF d.dtype = "bool" THEN VBool(Positive(d, t.name)) ELSE AsType(DeclType(d), t.value)

Canonical(name) == IF StartsWith(name, "-") THEN name ELSE "--" \o name

TokenNames(av) == {av[i] : i \in NamePositions(av)}

FirstName(av) == CHOOSE t \in TokenNames(av) : \A o \in TokenNames(av) \ {t} : StrLess(t, o)

\* Nothing stops parse_args before its first look-up: the command line
\* starts with a name, no name has three dashes, none asks for help, and
\* no registry is bound.
ReachesLookup(node, av) ==
    /\ av # <<>> /\ StartsWith(av[1], "-")
    /\ \A t \in TokenNames(av) : ~StartsWith(t, "---") /\ t \notin {"--help", "-h"}
    /\ node.registry = None

StartingWith(node, n) == {k \in DOMAIN node.args : StartsWith(k, n)}

TheOne(S) == CHOOSE k \in S : TRUE

\* C7: get_argument with a name (a plain name standing for --name) that is
\* no spelling of the argument index but a prefix of exactly one returns
\* the value of that spelling's argument; with a prefix of two or more
\* spellings it fails with MultipleMatchError.
C7_PrefixLookup ==
    (/\ ret.op = "get_argument"
     /\ ~StartsWith(Canonical(ret.arg), "---")
     /\ Canonical(ret.arg) \notin DOMAIN Node.args)
        => /\ Cardinality(StartingWith(Node, Canonical(ret.arg))) = 1
                  => /\ ret.err = ""
                     /\ ret.val = Node.objs[Node.args[TheOne(StartingWith(Node, Canonical(ret.arg)))].arg].value
           /\ Cardinality(StartingWith(Node, Canonical(ret.arg))) >= 2
                  => ret.err = "MultipleMatchError"

C7_Witness ==
    /\ ret.op = "get_argument" /\ ret.arg = "--x"
    /\ "--x" \notin DOMAIN Node.args
    /\ StartingWith(Node, "--x") = {"--xy"}
    /\ ret.err = "" /\ ret.val = VStr("a")

\* add_argument is called with a full or short name that is a spelling of
\* the argument index already.
AddsRegistered(node, d) ==
    \/ d.full_name \in DOMAIN node.args
    \/ d.short_name # NoName /\ d.short_name \in DOMAIN node.args

Reserved == {"--help", "-h", "--unsafe", "-u", "--config", "-cfg", "--log_dir", "-ld",
             "--msg", "-m"}

UsesReserved(d) == d.full_name \in Reserved \/ d.short_name \in Reserved

\* Argument(...) takes the declaration: the names are well formed and the
\* default fits.
Constructs(d) ==
    NewArgument(d.full_name, d.short_name, d.default, d.dtype, d.nargs, FALSE).err = ""

\* C8 as stated: add_argument fails with DuplicateError whenever its full
\* or short name is a spelling of the argument index already.
C8_DuplicateWhenever ==
    [][(ret'.op = "add_argument" /\ HasNode /\ AddsRegistered(Node, ret'.arg))
          => ret'.err = "DuplicateError"]_vars

\* C8: add_argument with a full or short name that is a spelling of the
\* argument index already never succeeds and leaves the node as it was; it
\* fails with DuplicateError when the checks made before pass: the node is
\* not parsed or unsafe mode is on, neither name is reserved, and the
\* Argument is constructed.
C8_DuplicateAfterChecks ==
    [][(ret'.op = "add_argument" /\ HasNode /\ AddsRegistered(Node, ret'.arg))
          => /\ ret'.err # ""
             /\ nodes' = nodes
             /\ (/\ ~(Node.parsed /\ ~unsafe)
                 /\ ~UsesReserved(ret'.arg)
                 /\ Constructs(ret'.arg))
                    => ret'.err = "DuplicateError"]_vars

\* The short name -x, taken by --x, is declared again under --y.
C8_Witness ==
    /\ ret.op = "add_argument" /\ ret.err = "DuplicateError"
    /\ ret.arg.full_name = "--y" /\ ret.arg.short_name = "-x"
    /\ "--y" \notin DOMAIN Node.args
    /\ "-x" \in DOMAIN Node.args

\* C9 as stated: add_argument fails with KeywordError whenever its full or
\* short name is a reserved spelling.
C9_KeywordWhenever ==
    (ret.op = "add_argument" /\ UsesReserved(ret.arg)) => ret.err = "KeywordError"

\* C9: on a node that is not parsed, or in unsafe mode, add_argument (which
\* has no force parameter at module level) fails with KeywordError whenever
\* its full or short name is a reserved spelling, also when the name has
\* the wrong format for its place or a spelling is registered already.
C9_KeywordFirst ==
    (/\ ret.op = "add_argument"
     /\ UsesReserved(ret.arg)
     /\ ~(Node.parsed /\ ~unsafe))
        => ret.err = "KeywordError"

\* The reserved short spelling -h passed as the full name.
C9_Witness ==
    /\ ret.op = "add_argument"
    /\ ret.arg.full_name = "-h"
    /\ ret.err = "KeywordError"

\* C10: when parse_args has completed on the node and unsafe mode is off,
\* add_argument fails with ParsedError whatever the declaration, and the
\* node stays as it was.
C10_ParsedError ==
    [][(ret'.op = "add_argument" /\ HasNode /\ Node.parsed /\ ~unsafe)
          => ret'.err = "ParsedError" /\ nodes' = nodes]_vars

C10_Witness ==
    /\ ret.op = "add_argument" /\ ret.err = "ParsedError"
    /\ ret.arg.full_name = "--xy"
    /\ Node.parsed /\ ~unsafe
    /\ "--xy" \notin DOMAIN Node.args

\* The built-in flag --unsafe/-u of the node.
UnsafeFlag == [full_name |-> "--unsafe", short_name |-> "-u", dtype |-> "bool"]

\* C11: unsafe mode goes from off to on only in a parse_args whose command
\* line has a token naming the flag --unsafe/-u and that leaves the flag
\* with the value true; when the tokens naming it are the negative
\* spellings (--no_unsafe, -no_u), or none names it, unsafe mode stays off.
C11_OnOnlyWhenTrue ==
    [][(~unsafe /\ unsafe')
          => /\ ret'.op \in {"parse_args", "get_log_dir"}
             /\ \E i \in NamePositions(argv) :
                    \E sp \in Spellings(UnsafeFlag) : StartsWith(sp, argv[i])
             /\ nodes'[default_node].objs["--unsafe"].value = VBool(TRUE)]_vars

\* parse_args completed on the command line "--no_unsafe": the flag is
\* false and unsafe mode is on.
C11_NegativeCase ==
    /\ Completed
    /\ argv = <<"--no_unsafe">>
    /\ ret.val["unsafe"] = VBool(FALSE)
    /\ unsafe

\* The value of a token does not fit the arity of argument a: a value for
\* a flag, none or several for arity 1, none for '+', a number of values
\* other than N for arity N.
Misfit(a, v) ==
    IF a.nargs = 0 THEN v # None
    ELSE IF a.nargs = 1 THEN v = None \/ IsTuple(v)
    ELSE IF a.nargs = PLUS THEN v = None
    ELSE ~(IsTuple(v) /\ Len(v.items) = a.nargs)

MisfitPositions(node, a, av) ==
    {i \in TargetPositions(node, a, av) : Misfit(a, ValueAt(av, i))}

\* C12: a parse_args on a node not parsed yet, whose command line names
\* registered spellings only, with a token that names a declared argument
\* with a value that does not fit its arity, fails with NArgsError and
\* leaves that argument's value as it was.
C12_MisfitFails ==
    [][(/\ pc = Idle /\ ret'.op \in {"parse_args", "get_log_dir"}
        /\ HasNode /\ ~Node.parsed
        /\ \A i \in NamePositions(argv) : ~Unmatched(Node, argv[i]))
          => \A k \in UserArgs(Node) :
                 MisfitPositions(Node, Node.objs[k], argv) # {}
                     => /\ ret'.err = "NArgsError"
                        /\ nodes'[default_node].objs[k].value = Node.objs[k].value]_vars

\* parse_args completed on the command line "--l" with --l declared with
\* arity '+' and default 1: its value is None.
C12_NoValueForPlus ==
    /\ Completed
    /\ argv = <<"--l">>
    /\ "--l" \in DOMAIN Node.objs
    /\ Node.objs["--l"].nargs = PLUS
    /\ Node.objs["--l"].default = VInt(1)
    /\ ret.val["l"] = None

\* The step is a set_argument by a registered spelling of the argument
\* index, and its look-up found argument k.
LookupErrors == {"MultipleMatchError", "NameError", "AttributeError"}

SetsByName(k) ==
    /\ pc = Idle /\ ret'.op = "set_argument"
    /\ HasNode
    /\ Canonical(ret'.arg.name) \in DOMAIN Node.args
    /\ Node.args[Canonical(ret'.arg.name)].arg = k
    /\ ret'.err \notin LookupErrors

Scalar(v) == v # None /\ ~IsTuple(v)

ValueAfter(k) == nodes'[default_node].objs[k].value

ValidFor(a, v) ==
    /\ v # None
    /\ IF a.nargs = 0 THEN v.k = "bool" ELSE Scalar(v)
    /\ Construct(a.dtype, v).err = ""

\* C14: a get_argument(name) that follows a set_argument(name, v), for a
\* name registered in the argument index and a value valid for that
\* argument, returns v as the argument's type (the declared one, or the
\* type of the default), before and after parse_args.
C14_SetThenGet ==
    [][(/\ pc = Idle
        /\ ret.op = "set_argument" /\ ret'.op = "get_argument"
        /\ ret'.arg = ret.arg.name
        /\ Canonical(ret.arg.name) \in DOMAIN Node.args
        /\ ValidFor(Node.objs[Node.args[Canonical(ret.arg.name)].arg], ret.arg.value))
          => /\ ret'.err = ""
             /\ ret'.val = Construct(Node.objs[Node.args[Canonical(ret.arg.name)].arg].dtype,
                                     ret.arg.value).val]_vars

\* With the flag --xy declared next to --x, set_argument("x", 5) raised
\* MultipleMatchError and x is left with its default.
C14_ShadowedCase ==
    /\ ret.op = "set_argument" /\ ret.err = "MultipleMatchError"
    /\ ret.arg = [name |-> "x", value |-> VInt(5)]
    /\ "--x" \in DOMAIN Node.args
    /\ "--xy" \in DOMAIN Node.arg_views
    /\ Node.objs["--x"].value = VInt(0)

\* Name n is a spelling of the view index, or a prefix of one, and neither
\* a spelling of the argument index nor a prefix of one.
ViewOnly(node, n) ==
    /\ \E sp \in DOMAIN node.arg_views : StartsWith(sp, Canonical(n))
    /\ ~\E sp \in DOMAIN node.args : StartsWith(sp, Canonical(n))

\* C15: a set_argument whose name matches a view spelling only changes no
\* argument of the node.
C15_ViewIsNoTarget ==
    [][(/\ pc = Idle /\ ret'.op = "set_argument"
        /\ HasNode /\ ViewOnly(Node, ret'.arg.name))
          => nodes'[default_node].objs = Node.objs]_vars

\* set_argument("--no_xy", True) returned and the flag --xy (default
\* false) is true.
C15_NegativeSpellingCase ==
    /\ ret.op = "set_argument" /\ ret.err = ""
    /\ ret.arg = [name |-> "--no_xy", value |-> VBool(TRUE)]
    /\ Node.objs["--xy"].default = VBool(FALSE)
    /\ Node.objs["--xy"].value = VBool(TRUE)

\* C16: when parse_args has completed with a profile loaded, an argument
\* whose name is a field of the profile and that no token of the command
\* line names holds the field's value, in the node and in the result of
\* parse_args.
C16_ProfileOverDefault ==
    Completed =>
        \A k \in UserArgs(Node) :
            \A f \in ProfileFields(Node) :
                (f.name = Node.objs[k].name /\ TargetPositions(Node, Node.objs[k], argv) = {})
                    => /\ Node.objs[k].value = AsType(Node.objs[k].dtype, f.value)
                       /\ ret.val[f.name] = Node.objs[k].value

\* test_cfg_default: --x declared with default 0, "-cfg T" on the command
\* line, profile T has x = 1.
C16_Witness ==
    /\ Completed
    /\ argv = <<"-cfg", "T">>
    /\ "--x" \in DOMAIN Node.objs
    /\ Node.objs["--x"].default = VInt(0)
    /\ \E f \in ProfileFields(Node) : f.name = "x" /\ f.value = VInt(1)
    /\ ret.val["x"] = VInt(1)

\* C17: when parse_args has completed in unsafe mode, a field of the
\* profile whose name matches no registered spelling is in the buffer as
\* a token of source CONFIG with the field's value; an add_argument after
\* that which registers an argument of the field's name leaves it with the
\* field's value as the argument's type, not with the declared default,
\* and returns that value when it returns.
C17_LateProfileValue ==
    [][/\ (Completed /\ unsafe)
              => \A f \in ProfileFields(Node) :
                     Unmatched(Node, "--" \o f.name)
                         => /\ ("--" \o f.name) \in DOMAIN Node.cli_unparsed
                            /\ Node.cli_unparsed["--" \o f.name].idx.source = "CONFIG"
                            /\ Node.cli_unparsed["--" \o f.name].value = f.value
       /\ (/\ pc = Idle /\ ret'.op = "add_argument"
           /\ HasNode /\ Node.parsed /\ unsafe
           /\ ret'.arg.full_name \in DOMAIN Node.cli_unparsed
           /\ Node.cli_unparsed[ret'.arg.full_name].idx.source = "CONFIG"
           /\ ret'.arg.full_name \notin DOMAIN Node.objs
           /\ ret'.arg.full_name \in DOMAIN nodes'[default_node].objs)
              => /\ nodes'[default_node].objs[ret'.arg.full_name].value =
                        AsType(DeclType(ret'.arg), Node.cli_unparsed[ret'.arg.full_name].value)
                 /\ ret'.err = "" => ret'.val = nodes'[default_node].objs[ret'.arg.full_name].value
      ]_vars

\* test_ad_hoc_in_cfg_not_overridden_by_add_argument: "-cfg T -u" was
\* parsed, then --x was declared with default 0 and add_argument returned
\* the profile's 1.
C17_Witness ==
    /\ argv = <<"-cfg", "T", "-u">>
    /\ ret.op = "add_argument" /\ ret.err = ""
    /\ ret.arg.full_name = "--x" /\ ret.arg.default = VInt(0)
    /\ Node.parsed /\ unsafe
    /\ Node.objs["--x"].unsafe
    /\ "--x" \notin DOMAIN Node.cli_unparsed
    /\ ret.val = VInt(1)

\* C18: in safe mode get_argument with a name that is a spelling of the
\* view index (or a prefix of one) and matches nothing in the argument
\* index fails with NameError, also after parse_args took that spelling
\* as a token of the command line.
C18_NoViewLookup ==
    (/\ ret.op = "get_argument"
     /\ ~unsafe
     /\ ViewOnly(Node, ret.arg))
        => ret.err = "NameError"

\* parse_args took the token --no_verbose (the flag is false, the token's
\* index is kept), and get_argument("--no_verbose") failed with NameError.
C18_Witness ==
    /\ argv = <<"--no_verbose">>
    /\ ret.op = "get_argument" /\ ret.arg = "--no_verbose"
    /\ ret.err = "NameError"
    /\ Node.parsed /\ ~unsafe
    /\ "--no_verbose" \in DOMAIN Node.arg_views
    /\ Node.objs["--verbose"].default = VBool(TRUE)
    /\ Node.objs["--verbose"].value = VBool(FALSE)
    /\ Node.objs["--verbose"].last_idx # None

\* The number of dashes a name starts with.
RECURSIVE Dashes(_)
Dashes(name) == IF StartsWith(name, "-") THEN 1 + Dashes(Drop(name, 1)) ELSE 0

WellFormed(d) ==
    /\ Dashes(d.full_name) = 2
    /\ d.short_name # NoName => Dashes(d.short_name) = 1
    /\ d.dtype = "bool"
           => /\ ~StartsWith(d.full_name, "--no_")
              /\ d.short_name # NoName => ~StartsWith(d.short_name, "-no_")

\* C19: Argument(...) fails with FormatError unless the full name starts
\* with exactly two dashes and the short name, when given, with exactly
\* one, and, for a boolean argument, the full name does not start with
\* --no_ nor the short name with -no_; with such names and a default of
\* the declared type it succeeds.
C19_FormatError ==
    ret.op = "Argument"
        => /\ ~WellFormed(ret.arg) => ret.err = "FormatError"
           /\ WellFormed(ret.arg) => ret.err = "" /\ ret.val = ret.arg.default

\* test_bool_format: Argument('--no_x', default=True, dtype=bool).
C19_Witness ==
    /\ ret.op = "Argument" /\ ret.err = "FormatError"
    /\ ret.arg.full_name = "--no_x" /\ ret.arg.short_name = NoName
    /\ ret.arg.dtype = "bool"

\* C20: when clear() has returned the process is in the state of a fresh
\* one, the token counters aside (only their order is ever read): no node
\* is registered, unsafe mode is off, and the default node is "_root".
C20_ClearIsFresh ==
    ret.op = "clear"
        => /\ nodes = EmptyMap
           /\ ~unsafe
           /\ default_node = "_root"

\* clear() returned after set_default_parser("another"): the registry is
\* empty, unsafe mode is off, and the default node is still "another".
C20_DefaultNodeKept ==
    /\ ret.op = "clear"
    /\ nodes = EmptyMap /\ ~unsafe
    /\ default_node = "another"

\* The nodes other than the default one, and the spellings of node's
\* argument index that start with name n.
OtherNodes == DOMAIN nodes \ {default_node}

DeclaredElsewhere(n) == \E m \in OtherNodes : Canonical(n) \in DOMAIN nodes[m].args

\* C21 as stated: a look-up on the default node of a name that is a
\* spelling of another node's argument index and not of its own fails as
\* not found.
C21_NotFoundWhenever ==
    (/\ ret.op = "get_argument"
     /\ Canonical(ret.arg) \notin DOMAIN Node.args
     /\ DeclaredElsewhere(ret.arg))
        => ret.err \in {"NameError", "AttributeError"}

\* C21: a look-up on the default node of a name that is a spelling of
\* another node's argument index, and neither a spelling of its own nor a
\* prefix of one, fails: with NameError in safe mode, with AttributeError
\* in unsafe mode; a name that is a spelling of the default node's index
\* resolves to that node's argument; add_argument and parse_args leave
\* every other node as it was.
C21_NodesAreSeparate ==
    [][/\ (/\ ret'.op = "get_argument" /\ pc = Idle /\ HasNode
           /\ StartingWith(Node, Canonical(ret'.arg)) = {}
           /\ DeclaredElsewhere(ret'.arg))
              => ret'.err = IF unsafe THEN "AttributeError" ELSE "NameError"
       /\ (/\ ret'.op = "get_argument" /\ pc = Idle /\ HasNode
           /\ Canonical(ret'.arg) \in DOMAIN Node.args)
              => /\ ret'.err = ""
                 /\ ret'.val = Node.objs[Node.args[Canonical(ret'.arg)].arg].value
       /\ ret'.op \in {"add_argument", "parse_args", "get_log_dir"}
              => \A m \in OtherNodes : m \in DOMAIN nodes' /\ nodes'[m] = nodes[m]
      ]_vars

\* test_set_parser: --x is declared on "_root" and not on "another", the
\* default node is "another", and get_argument("x") failed with NameError.
C21_Witness ==
    /\ default_node = "another"
    /\ ret.op = "get_argument" /\ ret.arg = "x" /\ ret.err = "NameError"
    /\ "_root" \in DOMAIN nodes /\ "--x" \in DOMAIN nodes["_root"].args
    /\ StartingWith(Node, "--x") = {}

\* The command line asks for help; every element in name position is a
\* name of two dashes or one.
AsksHelp(av) == \E i \in 1..Len(av) : av[i] \in {"--help", "-h"}

NamesWellFormed(av) ==
    /\ av # <<>> => StartsWith(av[1], "-")
    /\ \A i \in NamePositions(av) : ~StartsWith(av[i], "---")

\* The step is a call of parse_args.
ParseStep == pc = Idle /\ ret'.op \in {"parse_args", "get_log_dir"}

\* C22 as stated: a parse_args on a command line with --help or -h
\* anywhere ends the process with status 0.
C22_HelpWhenever ==
    [][(ParseStep /\ AsksHelp(argv)) => ret'.err = "SystemExit"]_vars

\* C22: a parse_args on a node that is not parsed, with --help or -h on
\* a command line whose names are well formed, ends the process with
\* status 0: unsafe mode is as before, every argument is as before, and
\* the node is not marked parsed.
C22_HelpExits ==
    [][(/\ ParseStep /\ AsksHelp(argv) /\ NamesWellFormed(argv)
        /\ HasNode => ~Node.parsed)
          => /\ ret'.err = "SystemExit"
             /\ pc'.at = "exit"
             /\ unsafe' = unsafe
             /\ ~nodes'[default_node].parsed
             /\ HasNode => nodes'[default_node].objs = Node.objs]_vars

\* "-u --x 1 -h" with --x declared: the process ended, x has its default
\* and unsafe mode is off.
C22_Witness ==
    /\ pc.at = "exit"
    /\ argv = <<"-u", "--x", "1", "-h">>
    /\ ret.err = "SystemExit"
    /\ "--x" \in DOMAIN Node.objs
    /\ Node.objs["--x"].value = VInt(0)
    /\ ~unsafe /\ ~Node.parsed

\* C23: the mapping parse_args returns has one entry for each argument of
\* the node, under its full name without the dashes, and nothing else (no
\* entry for a short spelling or a view); the entry is the value the
\* argument holds.
C23_ResolvedMapping ==
    Completed =>
        /\ DOMAIN ret.val = {Drop(k, 2) : k \in DOMAIN Node.objs}
        /\ \A k \in DOMAIN Node.objs : ret.val[Drop(k, 2)] = Node.objs[k].value

\* test_parse_args: --x/-x of type int with default 0 and the tokens
\* "-x 5" give x = 5; the flag --verbose/-v adds the one entry "verbose".
C23_Witness ==
    /\ Completed
    /\ argv = <<"-x", "5">>
    /\ "--x" \in DOMAIN Node.objs /\ "--verbose" \in DOMAIN Node.objs
    /\ Node.objs["--x"].default = VInt(0)
    /\ ret.val["x"] = VInt(5)
    /\ "verbose" \in DOMAIN ret.val
    /\ "v" \notin DOMAIN ret.val /\ "no_verbose" \notin DOMAIN ret.val

\* C24: a < b on two indices always has a result: true when a is of
\* source CONFIG and b of source CLI, false the other way round, and the
\* order of the counters when the sources are the same.
C24_TotalOrder ==
    ret.op = "Index.__lt__"
        => /\ ret.err = ""
           /\ ret.val = VBool(\/ ret.arg[1].source = "CONFIG" /\ ret.arg[2].source = "CLI"
                              \/ /\ ret.arg[1].source = ret.arg[2].source
                                 /\ ret.arg[1].idx < ret.arg[2].idx)

\* Index(CONFIG, 0) < Index(CLI, 1) raised TypeError.
C24_MixedSources ==
    /\ ret.op = "Index.__lt__"
    /\ ret.arg = <<Index("CONFIG", 0), Index("CLI", 1)>>
    /\ ret.err = "TypeError"

\* The positions of the command line whose name is exactly a positive
\* spelling of argument a.
ExactPositions(a, av) == {i \in NamePositions(av) : av[i] \in PosSpellings(a)}

\* C25: in a parse_args on a node not yet parsed, where every name of the
\* command line is exactly a spelling of the argument index and comes with
\* a value that fits, every token is applied to the argument of that
\* spelling, whatever other spellings start with the name: parse_args does
\* not fail in its look-ups, and the argument holds the value of the last
\* of its tokens.
C25_ExactMatchFirst ==
    [][(/\ ParseStep /\ HasNode /\ ~Node.parsed
        /\ \A i \in NamePositions(argv) : argv[i] \in DOMAIN Node.args
        /\ NamesWellFormed(argv)
        /\ \A k \in UserArgs(Node) : MisfitPositions(Node, Node.objs[k], argv) = {})
          => \A k \in UserArgs(Node) :
                 ExactPositions(Node.objs[k], argv) # {}
                     => /\ ret'.err = ""
                        /\ nodes'[default_node].objs[k].value =
                               GivenValue(Node.objs[k], argv,
                                          LastPosition(ExactPositions(Node.objs[k], argv)))]_vars

\* With --x and the flag --xy declared, parse_args on "--x 2" raised
\* MultipleMatchError and x is left with its default.
C25_ShadowedToken ==
    /\ ret.op = "parse_args" /\ ret.err = "MultipleMatchError"
    /\ argv = <<"--x", "2">>
    /\ "--x" \in DOMAIN Node.args
    /\ "--xy" \in DOMAIN Node.arg_views
    /\ Node.objs["--x"].value = VInt(0)

\* Name n resolves in an index: it is one of its spellings, or a prefix of
\* exactly one; the argument it resolves to.
Matches(trie, n) ==
    IF n \in DOMAIN trie THEN {n} ELSE {k \in DOMAIN trie : StartsWith(k, n)}

Resolves(trie, n) == Cardinality(Matches(trie, n)) = 1

TargetOf(trie, n) == trie[TheOne(Matches(trie, n))].arg

\* The step is a set_argument, the look-up of which is the node's
\* get_argument with views.
SetStep == pc = Idle /\ ret'.op = "set_argument" /\ HasNode

\* C26: the node's get_argument, as set_argument and parse_args call it:
\* when the name resolves in the view index to a view of one argument and
\* in the argument index to another argument, it fails with
\* MultipleMatchError and nothing changes; when both resolve to the same
\* argument the view is what is returned (a token of that name sets the
\* flag to the view's value); when the name resolves in the argument index
\* and matches nothing in the view index the argument is returned (the
\* value set is the value given, as the argument's type).
C26_ViewsFirst ==
    [][/\ (/\ SetStep
           /\ Resolves(Node.arg_views, Canonical(ret'.arg.name))
           /\ Resolves(Node.args, Canonical(ret'.arg.name))
           /\ TargetOf(Node.arg_views, Canonical(ret'.arg.name))
                  # TargetOf(Node.args, Canonical(ret'.arg.name)))
              => ret'.err = "MultipleMatchError" /\ nodes'[default_node] = Node
       /\ (/\ ParseStep /\ HasNode /\ ~Node.parsed
           /\ Len(argv) = 1
           /\ Resolves(Node.arg_views, argv[1])
           /\ Resolves(Node.args, argv[1])
           /\ TargetOf(Node.arg_views, argv[1]) = TargetOf(Node.args, argv[1]))
              => /\ ret'.err = ""
                 /\ nodes'[default_node].objs[TargetOf(Node.args, argv[1])].value =
                        VBool(Node.arg_views[TheOne(Matches(Node.arg_views, argv[1]))].value)
       /\ (/\ SetStep
           /\ Matches(Node.arg_views, Canonical(ret'.arg.name)) = {}
           /\ Resolves(Node.args, Canonical(ret'.arg.name))
           /\ ValidFor(Node.objs[TargetOf(Node.args, Canonical(ret'.arg.name))], ret'.arg.value))
              => /\ ret'.err = ""
                 /\ ValueAfter(TargetOf(Node.args, Canonical(ret'.arg.name))) =
                        Construct(Node.objs[TargetOf(Node.args, Canonical(ret'.arg.name))].dtype,
                                  ret'.arg.value).val
      ]_vars

\* test_potential_conflicting_args, for set_argument: "--x" is a prefix of
\* the view spelling --xy and the full name of the argument x.
C26_Witness ==
    /\ ret.op = "set_argument" /\ ret.arg.name = "x"
    /\ ret.err = "MultipleMatchError"
    /\ Resolves(Node.arg_views, "--x") /\ TargetOf(Node.arg_views, "--x") = "--xy"
    /\ Resolves(Node.args, "--x") /\ TargetOf(Node.args, "--x") = "--x"

----------------------------------------------------------------------------
\* The last call was an add_argument on a node that parse_args had
\* completed, in unsafe mode.
LateDecl == ret.op = "add_argument" /\ HasNode /\ Node.parsed /\ unsafe

\* The arity declaration d gives its argument.
DeclArity(d) ==
    [nargs |-> IF d.dtype = "bool" THEN 0 ELSE IF d.nargs = NoNargs THEN 1 ELSE d.nargs]

\* The positions of the command line whose name is a spelling of
\* declaration d or an abbreviation of one, and those of them whose value
\* does not fit d's arity.
NamingPositions(d, av) ==
    {i \in NamePositions(av) : \E sp \in Spellings(d) : StartsWith(sp, av[i])}

LateMisfits(d, av) ==
    {i \in NamingPositions(d, av) : Misfit(DeclArity(d), ValueAt(av, i))}

\* C27: an add_argument after parse_args in unsafe mode, of an argument
\* that a buffered token names with a value that does not fit the declared
\* arity, fails with NArgsError: it does not fail otherwise while the token
\* is in the buffer (a name declared already aside), and it does not
\* succeed by applying tokens.
C27_LateArityEnforced ==
    (/\ LateDecl
     /\ \/ /\ ret.err \notin {"", "DuplicateError"}
           /\ \E i \in LateMisfits(ret.arg, argv) : argv[i] \in DOMAIN Node.cli_unparsed
        \/ /\ ret.err = ""
           /\ Node.objs[ret.arg.full_name].last_idx # None
           /\ LateMisfits(ret.arg, argv) # {})
        => ret.err = "NArgsError"

\* The command line "-u --x" was parsed, --x/-x (arity 1, default 0) was
\* declared afterwards: the declaration returned None, the token is out
\* of the buffer and the argument holds None.
C27_NoValueApplied ==
    /\ LateDecl
    /\ argv = <<"-u", "--x">>
    /\ ret.arg = Decl("--x", "-x", VInt(0), "int", NoNargs)
    /\ ret.err = "" /\ ret.val = None
    /\ Node.objs["--x"].value = None
    /\ Node.objs["--x"].nargs = 1
    /\ "--x" \notin DOMAIN Node.cli_unparsed

----------------------------------------------------------------------------
\* The run that declares d first and calls parse_args next, in a fresh
\* process with the same command line, and the value it leaves d with.
FreshContext ==
    [node |-> NewNode("_root", FALSE), unsafe |-> FALSE, cli_idx |-> 0, cfg_idx |-> 0]

EarlyRun(d, av) == ParseArgsBody(add_argument(FreshContext, d, FALSE).c, av)

EarlyValue(d, av) == EarlyRun(d, av).c.node.objs[d.full_name].value

\* The last call declared the only user argument of the node, after
\* parse_args and in unsafe mode, and the name was not declared before.
OnlyLateDecl ==
    /\ LateDecl
    /\ Node.registry = None
    /\ UserArgs(Node) \subseteq {ret.arg.full_name}
    /\ ret.err # "DuplicateError"

\* C28: in unsafe mode with no profile, when the only user argument is
\* declared after parse_args and every token of the command line that names
\* it, exactly or by an abbreviation, has a value that fits its arity, the
\* declaration returns the value the argument has after parse_args when it
\* is declared before parse_args on the same command line.
C28_LateEqualsEarly ==
    (/\ OnlyLateDecl
     /\ LateMisfits(ret.arg, argv) = {}
     /\ EarlyRun(ret.arg, argv).err = "")
        => /\ ret.err = ""
           /\ ret.val = EarlyValue(ret.arg, argv)
           /\ Node.objs[ret.arg.full_name].value = EarlyValue(ret.arg, argv)

\* The command line "-u --l 3" was parsed and --lr (default 0) declared
\* afterwards: the declaration failed with MultipleMatchError, the token is
\* still in the buffer and --lr holds 0; declared first, --lr is given 3.
C28_AbbreviatesLogDir ==
    /\ OnlyLateDecl
    /\ argv = <<"-u", "--l", "3">>
    /\ ret.arg = Decl("--lr", NoName, VInt(0), "int", NoNargs)
    /\ ret.err = "MultipleMatchError"
    /\ "--l" \in DOMAIN Node.cli_unparsed
    /\ Node.objs["--lr"].value = VInt(0)
    /\ EarlyRun(ret.arg, argv).err = ""
    /\ EarlyValue(ret.arg, argv) = VInt(3)

----------------------------------------------------------------------------
\* parse_args has made a token buffer on the node.
Tokenized == HasNode /\ Node.cli_unparsed # None

\* The names of the command line, the last position where name n stands,
\* and the name positions from i on.
ArgvNames(av) == {av[i] : i \in NamePositions(av)}
LastWithName(av, n) == LastPosition({i \in NamePositions(av) : av[i] = n})
FromPosition(av, i) == {k \in NamePositions(av) : k >= i}

\* The token made for the name at position i of the command line, when
\* the tokens made so far number made: its value is made of the elements
\* up to the next name, its index counts the names in arrival order.
TokenAt(av, i, made) ==
    [name |-> av[i], value |-> ValueAt(av, i),
     idx |-> [source |-> "CLI", idx |-> made - Cardinality(FromPosition(av, i))]]

\* C29: on a command line whose names start with one or two dashes, every
\* CLI token in the buffer is the token of the last position of its name:
\* the elements after the name up to the next element that starts with a
\* dash are its value (none: no value, one: a scalar, several: a tuple in
\* order), and its index is the rank of its position among the names,
\* counted on from the tokens made before, so that indices grow strictly in
\* arrival order; when parse_args stops at help, every name of the command
\* line has its token; on a command line whose first element does not start
\* with a dash parse_args fails with Exception and no token is made.
C29_Tokenization ==
    /\ (Tokenized /\ NamesWellFormed(argv))
          => \A n \in DOMAIN Node.cli_unparsed :
                 Node.cli_unparsed[n].idx.source = "CLI"
                     => /\ n \in ArgvNames(argv)
                        /\ Node.cli_unparsed[n] = TokenAt(argv, LastWithName(argv, n), cli_idx)
    /\ (ret.op = "parse_args" /\ ret.err = "SystemExit" /\ NamesWellFormed(argv))
          => DOMAIN Node.cli_unparsed = ArgvNames(argv)
    /\ (ret.op = "parse_args" /\ argv # <<>> /\ ~StartsWith(argv[1], "-"))
          => /\ ret.err = "Exception"
             /\ Node.cli_unparsed = EmptyMap
             /\ cli_idx = 0

\* parse_args completed on "-u --zz 1 2" in unsafe mode: the token --zz is
\* in the buffer with the value ("1", "2") and the index (CLI, 1).
C29_Witness ==
    /\ Completed /\ Tokenized
    /\ argv = <<"-u", "--zz", "1", "2">>
    /\ DOMAIN Node.cli_unparsed = {"--zz"}
    /\ Node.cli_unparsed["--zz"].value = VTuple(<<VStr("1"), VStr("2")>>)
    /\ Node.cli_unparsed["--zz"].idx = Index("CLI", 1)

----------------------------------------------------------------------------
\* The arguments of the node that a CLI token was applied to.
Applied(node) ==
    {k \in DOMAIN node.objs : node.objs[k].last_idx # None /\ node.objs[k].last_idx.source = "CLI"}

\* C30: no token is applied to two arguments (two arguments never hold the
\* same last index); when parse_args has completed, no token of the buffer
\* matches a spelling registered on the node, whether or not the token was
\* newer than the one applied before it; when a declaration made after
\* parse_args in unsafe mode has returned, no token of the buffer names the
\* declared argument; and when parse_args has completed in unsafe mode,
\* every name of the command line that matches nothing is in the buffer
\* with the token made for it.
C30_TokenAppliedOnce ==
    /\ HasNode => \A a, b \in Applied(Node) :
                      Node.objs[a].last_idx = Node.objs[b].last_idx => a = b
    /\ Completed => \A n \in DOMAIN Node.cli_unparsed : Unmatched(Node, n)
    /\ (LateDecl /\ ret.err = "")
          => \A n \in DOMAIN Node.cli_unparsed :
                 ~\E sp \in Spellings(ret.arg) : StartsWith(sp, n)
    /\ (Completed /\ unsafe)
          => \A n \in ArgvNames(argv) :
                 Unmatched(Node, n)
                     => /\ n \in DOMAIN Node.cli_unparsed
                        /\ Node.cli_unparsed[n] = TokenAt(argv, LastWithName(argv, n), cli_idx)

\* parse_args completed on "-u -x 2 --x 1" with --x/-x declared: --x was
\* looked at first and gave 1, -x was older and changed nothing, and both
\* tokens are out of the buffer.
C30_Witness ==
    /\ Completed /\ unsafe
    /\ argv = <<"-u", "-x", "2", "--x", "1">>
    /\ "--x" \in DOMAIN Node.objs
    /\ Node.objs["--x"].value = VInt(1)
    /\ Node.objs["--x"].last_idx = Index("CLI", 2)
    /\ Node.cli_unparsed = EmptyMap

----------------------------------------------------------------------------
\* C31: a parse_args on a node whose parse_args has completed fails with
\* ParsedError, in safe and in unsafe mode: no token is made, the buffer
\* and every argument of every node are as before, and so is unsafe mode.
C31_ParsedOnce ==
    [][(ParseStep /\ HasNode /\ Node.parsed)
          => /\ ret'.err = "ParsedError"
             /\ nodes' = nodes
             /\ cli_idx' = cli_idx /\ cfg_idx' = cfg_idx
             /\ unsafe' = unsafe
             /\ pc' = Idle]_vars

\* A second parse_args on "-u" failed with ParsedError in unsafe mode: the
\* one token made by the first call is the only one made.
C31_Witness ==
    /\ ret.op = "parse_args" /\ ret.err = "ParsedError"
    /\ argv = <<"-u">>
    /\ HasNode /\ Node.parsed /\ unsafe
    /\ cli_idx = 1

----------------------------------------------------------------------------
\* The call is inside get_log_dir, and the path get_log_dir tries now.
InLogDir == pc.at = "log_dir"
PathNow == LogDirPath(pc.config, pc.msg, clock)

\* C32: the step that ends get_log_dir stores in log_dir a path that was
\* not on disk before the step and is on disk after it, and touches no
\* other path; while the path of the current time is on disk get_log_dir
\* does not end: the call stays inside it, and the disk, the nodes and the
\* result are as before.
C32_FreshLogDir ==
    [][/\ (InLogDir /\ pc'.at = "idle")
             => /\ ret'.op = "parse_args" /\ ret'.err = ""
                /\ nodes'[default_node].objs["--log_dir"].value = VStr(PathNow)
                /\ ret'.val["log_dir"] = VStr(PathNow)
                /\ PathNow \notin fs
                /\ fs' = fs \cup {PathNow}
       /\ (InLogDir /\ PathNow \in fs)
             => /\ pc' = pc
                /\ fs' = fs /\ nodes' = nodes /\ ret' = ret
                /\ clock' # clock
      ]_vars

\* A second parse_args after clear() found "log/0" on disk, made by the
\* first one, waited a second and made "log/1".
C32_Witness ==
    /\ Completed
    /\ fs = {"log/0", "log/1"}
    /\ clock = 1
    /\ Node.objs["--log_dir"].value = VStr("log/1")

----------------------------------------------------------------------------
\* C33: a call that is inside get_log_dir leaves it.
C33_LogDirReturns == InLogDir ~> (pc.at = "idle")

\* parse_args is inside get_log_dir on an empty disk, and every time of
\* the clock has been tried: the creation failed each time and the call
\* tries again.
C33_StillTrying ==
    /\ InLogDir
    /\ fs = {}
    /\ clock = MaxClock

----------------------------------------------------------------------------
(* C34.  The command tree is read through the parent of each command, not  *)
(* through name2command.                                                   *)

RootCall == ret.op = "ArgParser.parse_args" /\ ret.node = 1

NoConfigGiven == \A i \in 1..Len(argv) : ~StartsWith(argv[i], "--c") /\ argv[i] # "-cfg"

ChildrenNamed(c, e) ==
    {k \in 1..Len(commands.objs) :
        commands.objs[k].parent = c /\ commands.objs[k].cmd_name = e}

\* The route the positional elements describe from command c at element i.
RECURSIVE Route(_, _, _)
Route(c, i, chain) ==
    IF \A k \in 1..Len(commands.objs) : commands.objs[k].parent # c
    THEN [leaf |-> TRUE, chain |-> chain, i |-> i]
    ELSE IF i > Len(argv) THEN [leaf |-> FALSE, chain |-> chain, i |-> i]
    ELSE IF ChildrenNamed(c, argv[i]) = {} THEN [leaf |-> FALSE, chain |-> chain, i |-> i]
    ELSE Route(CHOOSE k \in ChildrenNamed(c, argv[i]) : \A j \in ChildrenNamed(c, argv[i]) : j <= k,
               i + 1,
               Append(chain, CHOOSE k \in ChildrenNamed(c, argv[i]) :
                                 \A j \in ChildrenNamed(c, argv[i]) : j <= k))

UnionOptions(chain) ==
    UNION {{commands.objs[chain[k]].argument_info[j] :
               j \in 1..Len(commands.objs[chain[k]].argument_info)} : k \in 1..Len(chain)}

DeclaredTwice(chain) ==
    \E k, l \in 1..Len(chain) :
        \E j \in 1..Len(commands.objs[chain[k]].argument_info) :
            \E m \in 1..Len(commands.objs[chain[l]].argument_info) :
                /\ <<k, j>> # <<l, m>>
                /\ commands.objs[chain[k]].argument_info[j]
                       = commands.objs[chain[l]].argument_info[m]

\* The remaining elements, read against the options opts: an element that
\* no option starts with is refused, and the last value given to an option
\* is the one the result holds.
ParsedAgainst(opts, i) ==
    /\ (\E k \in i..Len(argv) :
            /\ StartsWith(argv[k], "--")
            /\ \A o \in opts \cup {"--config", "--help"} : ~StartsWith(o, argv[k]))
       => ret.err = "SystemExit"
    /\ ret.err = ""
       => /\ DOMAIN ret.val.args = {"config"} \cup {Drop(o, 2) : o \in opts}
          /\ \A k \in i..(Len(argv) - 1) :
                (/\ argv[k] \in opts
                 /\ \A l \in (k + 1)..Len(argv) : argv[l] # argv[k])
                => ret.val.args[Drop(argv[k], 2)] = VStr(argv[k + 1])

\* C34: parse_args of the root parser follows the positional elements from
\* the root command through child commands to a leaf and parses the
\* remaining elements against the union of the options of the commands of
\* that chain; a command with children followed by no element, or by an
\* element that names none of its children, makes it raise
\* CommandException.  (No --config is given; an option declared twice on
\* the chain is refused by the ArgumentParser.)
C34_RoutesToLeaf ==
    (RootCall /\ NoConfigGiven)
    => IF ~Route(1, 1, <<1>>).leaf THEN ret.err = "CommandException"
       ELSE IF DeclaredTwice(Route(1, 1, <<1>>).chain) THEN ret.err = "ArgumentError"
       ELSE /\ ret.err \in {"", "SystemExit"}
            /\ ParsedAgainst(UnionOptions(Route(1, 1, <<1>>).chain), Route(1, 1, <<1>>).i)

\* The element a=>b names no child of the root command, and yet parse_args
\* returns, with the options of command b alone.
C34_Witness ==
    /\ RootCall
    /\ argv = <<"a=>b">>
    /\ ~Route(1, 1, <<1>>).leaf
    /\ ret.err = ""
    /\ ret.val.mode = "a-b"
    /\ commands.objs[2].argument_info = <<"--x">>
    /\ DOMAIN ret.val.args = {"config"}

----------------------------------------------------------------------------
\* The step is a call of add_argument that raised one of the errors of a
\* rejected declaration.
DeclErrors == {"KeywordError", "FormatError", "DuplicateError", "ParsedError"}

AddFails == pc = Idle /\ HasNode /\ ret'.op = "add_argument" /\ ret'.err \in DeclErrors

\* The step leaves the argument index and the view index of the node as
\* they were, and every argument with its value.
IndexesKept ==
    /\ nodes'[default_node].args = Node.args
    /\ nodes'[default_node].arg_views = Node.arg_views
    /\ \A k \in DOMAIN Node.objs :
          /\ k \in DOMAIN nodes'[default_node].objs
          /\ nodes'[default_node].objs[k].value = Node.objs[k].value

\* C35 as stated: an add_argument that raises KeywordError, FormatError,
\* DuplicateError or ParsedError leaves the argument index and the view
\* index of the node as they were, and the value of every argument.
C35_FailedAddKeeps == [][AddFails => IndexesKept]_vars

\* The command line "-u --p 1" was parsed and --p declared afterwards with
\* arity 2: the declaration failed with FormatError, and --p is in the
\* argument index with no value.
C35_Witness ==
    /\ LateDecl
    /\ argv = <<"-u", "--p", "1">>
    /\ ret.arg = Decl("--p", NoName, None, "int", 2)
    /\ ret.err = "FormatError"
    /\ "--p" \in DOMAIN Node.args
    /\ Node.objs["--p"].value = None
    /\ "--p" \in DOMAIN Node.cli_unparsed

----------------------------------------------------------------------------
\* The step is a declaration, on a node that parse_args has completed and
\* in unsafe mode, of names that are not registered.
LateAddStep ==
    /\ pc = Idle /\ HasNode /\ Node.parsed /\ unsafe
    /\ ret'.op = "add_argument"
    /\ ~AddsRegistered(Node, ret'.arg)

\* The buffered tokens whose name is a strict prefix of a spelling of
\* declaration d, and those whose name is a spelling of d or a prefix.
AbbreviatingTokens(node, d) ==
    {t \in DOMAIN node.cli_unparsed : \E sp \in Spellings(d) : StartsWith(sp, t) /\ sp # t}

NamingTokens(node, d) ==
    {t \in DOMAIN node.cli_unparsed : \E sp \in Spellings(d) : StartsWith(sp, t)}

\* C36 as stated: in unsafe mode a declaration made after parse_args takes
\* out of the buffer every token whose name is a strict prefix of one of
\* its spellings and is given a token's value; a declaration that finds no
\* token naming it returns its declared default.
C36_PrefixConsumed ==
    [][LateAddStep
         => /\ AbbreviatingTokens(Node, ret'.arg) # {}
               => /\ AbbreviatingTokens(Node, ret'.arg)
                         \cap DOMAIN nodes'[default_node].cli_unparsed = {}
                  /\ ret'.err = ""
                  /\ nodes'[default_node].objs[ret'.arg.full_name].last_idx # None
            /\ NamingTokens(Node, ret'.arg) = {}
               => /\ ret'.err = ""
                  /\ ret'.val = ret'.arg.default
                  /\ nodes'[default_node].objs[ret'.arg.full_name].last_idx = None]_vars

\* The command line "-u --l 3" was parsed and --lr declared afterwards:
\* the token --l, a strict prefix of --lr, is still in the buffer with its
\* value, and no token was applied to --lr.
C36_Witness ==
    /\ LateDecl
    /\ ret.arg.full_name = "--lr"
    /\ AbbreviatingTokens(Node, ret.arg) = {"--l"}
    /\ Node.cli_unparsed["--l"].value = VStr("3")
    /\ ret.err = "MultipleMatchError"
    /\ Node.objs["--lr"].last_idx = None

----------------------------------------------------------------------------
\* The command line holds a token whose name resolves to --config or -cfg.
ConfigToken(av) ==
    \E i \in NamePositions(av) : StartsWith("--config", av[i]) \/ StartsWith("-cfg", av[i])

\* C37: a parse_args on a node with a registry bound, on a command line
\* with no token that resolves to --config/-cfg, ends with an error: no
\* profile is loaded (no profile field is counted and every argument keeps
\* its value, --config its default), the call does not get as far as the
\* log directory and the node is not marked parsed.
C37_NeedsConfigToken ==
    [][(/\ ParseStep /\ HasNode /\ ~Node.parsed
        /\ Node.registry # None
        /\ ~ConfigToken(argv))
          => /\ ret'.op = "parse_args"
             /\ ret'.err # ""
             /\ pc' = Idle
             /\ cfg_idx' = cfg_idx
             /\ ~nodes'[default_node].parsed
             /\ \A k \in DOMAIN Node.objs \ {"--unsafe"} :
                   nodes'[default_node].objs[k].value = Node.objs[k].value]_vars

\* parse_args on "--x 2" with a registry bound and --x/-x declared raised
\* AttributeError: --config holds its default, --x its default 0, and the
\* node is not parsed.
C37_Witness ==
    /\ ret.op = "parse_args"
    /\ ret.err = "AttributeError"
    /\ argv = <<"--x", "2">>
    /\ HasNode /\ Node.registry # None /\ ~Node.parsed
    /\ Node.objs["--config"].value = VStr("")
    /\ "--x" \in DOMAIN Node.objs /\ Node.objs["--x"].value = VInt(0)
    /\ cfg_idx = 0

----------------------------------------------------------------------------
\* The look-up of a name that matches nothing on the default node, as the
\* node makes it now.
NoMatch(name) ==
    /\ PrefixKeys(_get_node[default_node].args, name) = {}
    /\ name \notin DOMAIN _get_node[default_node].args

\* C38: unsafe mode is one flag for every node.  It goes on in a call of
\* parse_args only and off in a call of clear() only; while it is on, on
\* whatever node, a look-up of a name that matches nothing returns None
\* and does not raise NameError, and add_argument does not raise
\* ParsedError, the node being parsed or not.
C38_SharedUnsafe ==
    [][/\ (~unsafe /\ unsafe') => ParseStep
       /\ (unsafe /\ ~unsafe') => ret'.op = "clear"
       /\ (unsafe /\ pc = Idle /\ ret'.op = "get_argument")
             => /\ ret'.err # "NameError"
                /\ NoMatch("--" \o ret'.arg)
                      => /\ get_argument(Context, ret'.arg, FALSE) = Ok(None)
                         /\ ret'.err = "AttributeError"
       /\ (unsafe /\ pc = Idle /\ ret'.op = "add_argument")
             => ret'.err # "ParsedError"]_vars

\* parse_args of node _root switched unsafe mode on and made log/0; the
\* node "another", parsed after it, has taken the declaration of --x.
C38_Witness ==
    /\ unsafe
    /\ default_node = "another"
    /\ "_root" \in DOMAIN nodes /\ nodes["_root"].parsed
    /\ nodes["_root"].objs["--log_dir"].value = VStr("log/0")
    /\ nodes["_root"].objs["--unsafe"].value = VBool(TRUE)
    /\ HasNode /\ Node.parsed
    /\ Node.objs["--log_dir"].value = VStr("log/1")
    /\ ret.op = "add_argument" /\ ret.err = ""
    /\ "--x" \in DOMAIN Node.objs /\ "--x" \notin DOMAIN nodes["_root"].objs

----------------------------------------------------------------------------
\* The errors of a parse_args that a token raises.
TokenErrors == {"NameError", "NArgsError", "MultipleMatchError"}

\* C39: a node becomes parsed only in the step that ends a parse_args
\* without error; a parse_args that raises NameError, NArgsError or
\* MultipleMatchError leaves its node unparsed; on a node that is not
\* parsed add_argument does not raise ParsedError, and neither does
\* parse_args.
C39_ParsedAtEndOnly ==
    [][/\ \A n \in DOMAIN nodes' :
             (nodes'[n].parsed /\ (n \in DOMAIN nodes => ~nodes[n].parsed))
                => /\ n = default_node
                   /\ pc.at = "log_dir" /\ pc' = Idle
                   /\ ret'.op = "parse_args" /\ ret'.err = ""
       /\ (ParseStep /\ ret'.err \in TokenErrors)
             => /\ ~nodes'[default_node].parsed
                /\ pc' = Idle
       /\ (pc = Idle /\ HasNode /\ ~Node.parsed /\ ret'.op \in {"add_argument", "parse_args"})
             => ret'.err # "ParsedError"]_vars

\* parse_args on "--x 2" in safe mode has completed with x = 2 on its
\* token, the second that was made: the first call, made before --x/-x
\* was declared, had made the first token and raised NameError.
C39_Witness ==
    /\ Completed /\ ~unsafe
    /\ argv = <<"--x", "2">>
    /\ Node.parsed
    /\ cli_idx = 2
    /\ Node.objs["--x"].value = VInt(2)
    /\ Node.objs["--x"].last_idx = Index("CLI", 1)

----------------------------------------------------------------------------
(* C40.  The nested loops of a tree of stages: a stage runs its substages  *)
(* in the order of their declaration, num_steps times.                     *)

\* T(stage): the number of leaf steps of one run of the stage.
RECURSIVE LeafSteps(_, _)
RECURSIVE LeafStepsOfAll(_, _)
LeafSteps(tr, stage) ==
    IF tr.stages[stage].substages = <<>> THEN tr.stages[stage].num_steps
    ELSE tr.stages[stage].num_steps * LeafStepsOfAll(tr, tr.stages[stage].substages)

LeafStepsOfAll(tr, substages) ==
    IF substages = <<>> THEN 0
    ELSE LeafSteps(tr, Head(substages)) + LeafStepsOfAll(tr, Tail(substages))

\* The number of leaf steps the loops have completed when their counters
\* are those of the nodes of the path from node k on.
RECURSIVE StepsDone(_, _)
StepsDone(tr, k) ==
    IF k > Len(tr.path) THEN 0
    ELSE (IF tr.stages[tr.path[k].stage].substages = <<>> THEN tr.path[k].step
          ELSE tr.path[k].step * LeafStepsOfAll(tr, tr.stages[tr.path[k].stage].substages)
               + LeafStepsOfAll(tr, SubSeq(tr.stages[tr.path[k].stage].substages,
                                           1, tr.path[k].substage_idx)))
         + StepsDone(tr, k + 1)

\* The path is a position of the loops: it runs from the schedule to a
\* leaf, each node in the substage its parent is at, every step below
\* the stage's num_steps.
LoopPosition(tr) ==
    /\ tr.path # <<>>
    /\ tr.path[1].stage = 1
    /\ tr.stages[tr.path[Len(tr.path)].stage].substages = <<>>
    /\ \A k \in 1..Len(tr.path) :
          /\ tr.path[k].step >= 0
          /\ tr.path[k].step < tr.stages[tr.path[k].stage].num_steps
          /\ k < Len(tr.path)
                => /\ tr.path[k].substage_idx >= 0
                   /\ tr.path[k].substage_idx < Len(tr.stages[tr.path[k].stage].substages)
                   /\ tr.path[k + 1].stage
                         = tr.stages[tr.path[k].stage].substages[tr.path[k].substage_idx + 1]

UpdateStep == tracker # None /\ tracker.path # <<>> /\ ret'.op = "update"

\* C40 as stated: fix_schedule puts the path at the first position of the
\* loops; every update() before finished is set raises nothing and moves
\* the path to the next position of the loops, but for the call number
\* T(schedule), which sets finished; an update() after that fails its
\* assertion.
C40_WalksLoops ==
    [][/\ (tracker # None /\ ret'.op = "fix_schedule")
             => /\ ret'.err = ""
                /\ ~tracker'.finished
                /\ StepsDone(tracker', 1) = 0
                /\ LoopPosition(tracker')
       /\ UpdateStep
             => IF tracker.finished
                THEN ret'.err = "AssertionError" /\ tracker' = tracker
                ELSE /\ ret'.err = ""
                     /\ IF StepsDone(tracker, 1) + 1 = LeafSteps(tracker, 1)
                        THEN tracker'.finished
                        ELSE /\ ~tracker'.finished
                             /\ StepsDone(tracker', 1) = StepsDone(tracker, 1) + 1
                             /\ LoopPosition(tracker')]_vars

\* A schedule whose only stage was added with num_steps = 0 has had its
\* schedule fixed and update() called without an error, and is not
\* finished: the leaf is at step 2 of its 0 steps, past T(schedule) = 0.
C40_Witness ==
    /\ tracker # None
    /\ ret.op = "update" /\ ret.err = ""
    /\ ~tracker.finished
    /\ Len(tracker.stages) = 2
    /\ tracker.stages[2].num_steps = 0
    /\ LeafSteps(tracker, 1) = 0
    /\ Len(tracker.path) = 2
    /\ tracker.path[2].step = 2

============================================================================
